---- MODULE Spec2Model ----
(***************************************************************************)
(* The ingestion pipeline of ccc (main.go, history.go, pricing.go):        *)
(* file readers -> line parsers -> deduplicating accumulator -> history    *)
(* store.  One run of main() is a sequence of actions of the main          *)
(* goroutine, the reader goroutines, the parser goroutines and the         *)
(* accumulator goroutine; NewRun starts the next run of the tool over the  *)
(* same primary logs with the history directory the previous run left.     *)
(*                                                                         *)
(* Money is counted in units of 1e-8 dollar so that every cost is an       *)
(* integer (tokens * price-in-cents-per-million-tokens); float64 rounding  *)
(* is not modelled.  Time is in Unix seconds, the local zone is UTC.       *)
(***************************************************************************)
EXTENDS Integers, Sequences, FiniteSets, TLC

(***************************************************************************)
(* Bounds of the model.                                                    *)
(***************************************************************************)
\* Number of runs of the tool in one behaviour.
MaxRuns == 2
\* Injected I/O failures (open, list, load, append) in one behaviour.
MaxFaults == 1
\* Capacity of lineChan and costChan (make(chan ..., 1000) in the source),
\* scaled down so that a full queue is reachable.
ChanCap == 1

(***************************************************************************)
(* Program constants and environment.                                      *)
(***************************************************************************)
\* runtime.NumCPU()
NumCPU == 2
\* 24 * time.Hour, in seconds
SecondsPerDay == 86400
\* the long-context threshold of GetModelPricing
LongContextTokens == 200000
\* the cap of min(runtime.NumCPU(), 4)
MaxFileWorkers == 4

Min(a, b) == IF a < b THEN a ELSE b

numLineWorkers == NumCPU
numFileWorkers == Min(NumCPU, MaxFileWorkers)
Readers == 1..numFileWorkers
Parsers == 1..numLineWorkers

\* A nil *string (ConversationEntry.RequestID, Message.Model).
Nil == "<nil>"

(***************************************************************************)
(* Log lines.  A line is what json.Unmarshal makes of its bytes: whether   *)
(* it decodes at all, and the fields of ConversationEntry it carries.      *)
(***************************************************************************)
Usage(in, out, cr, e5m, e1h) ==
    [input_tokens |-> in, output_tokens |-> out,
     cache_creation_input_tokens |-> e5m + e1h, cache_read_input_tokens |-> cr,
     ephemeral_5m_input_tokens |-> e5m, ephemeral_1h_input_tokens |-> e1h]

EventLine(uuid, req, ts, model, usage) ==
    [len |-> 1, decodes |-> TRUE, uuid |-> uuid, requestId |-> req,
     timestamp |-> ts, model |-> model, usage |-> usage]

\* A truncated or otherwise malformed line: json.Unmarshal returns an error.
TruncatedLine ==
    [len |-> 1, decodes |-> FALSE, uuid |-> "", requestId |-> Nil,
     timestamp |-> 0, model |-> Nil, usage |-> Usage(0, 0, 0, 0, 0)]

\* A zero-length line.
EmptyLine ==
    [len |-> 0, decodes |-> FALSE, uuid |-> "", requestId |-> Nil,
     timestamp |-> 0, model |-> Nil, usage |-> Usage(0, 0, 0, 0, 0)]

(***************************************************************************)
(* pricing.go                                                              *)
(***************************************************************************)
\* modelPricing, in cents per million tokens.
modelPricing(key) ==
    CASE key = "opus-4.5" ->
           [Input |-> 500, Cache5mWrite |-> 625, Cache1hWrite |-> 1000, CacheRead |-> 50, Output |-> 2500]
      [] key = "opus" ->
           [Input |-> 1500, Cache5mWrite |-> 1875, Cache1hWrite |-> 3000, CacheRead |-> 150, Output |-> 7500]
      [] key = "sonnet" ->
           [Input |-> 300, Cache5mWrite |-> 375, Cache1hWrite |-> 600, CacheRead |-> 30, Output |-> 1500]
      [] key = "sonnet-longcontext" ->
           [Input |-> 600, Cache5mWrite |-> 750, Cache1hWrite |-> 1200, CacheRead |-> 60, Output |-> 2250]
      [] key = "haiku-4.5" ->
           [Input |-> 100, Cache5mWrite |-> 125, Cache1hWrite |-> 200, CacheRead |-> 10, Output |-> 500]
      [] key = "haiku-3.5" ->
           [Input |-> 80, Cache5mWrite |-> 100, Cache1hWrite |-> 160, CacheRead |-> 8, Output |-> 400]
      [] key = "haiku-3" ->
           [Input |-> 25, Cache5mWrite |-> 30, Cache1hWrite |-> 50, CacheRead |-> 3, Output |-> 125]
      [] OTHER ->
           [Input |-> 0, Cache5mWrite |-> 0, Cache1hWrite |-> 0, CacheRead |-> 0, Output |-> 0]

\* GetModelPricing: the pricing key of a model id ("" when none resolves).
\* The substring tests of the source are tabulated for the model ids the
\* log lines of this model carry.
GetModelPricing(model, usage) ==
    CASE model = "claude-opus-4-5" -> "opus-4.5"
      [] model = "claude-opus-4" -> "opus"
      [] model = "claude-sonnet-4" ->
           IF usage.input_tokens + usage.cache_creation_input_tokens
              + usage.cache_read_input_tokens > LongContextTokens
           THEN "sonnet-longcontext" ELSE "sonnet"
      [] model = "claude-3-5-sonnet" -> "sonnet"
      [] model = "claude-haiku-4-5" -> "haiku-4.5"
      [] model = "claude-3-5-haiku" -> "haiku-3.5"
      [] model = "claude-3-haiku" -> "haiku-3"
      [] OTHER -> ""

\* CalculateCost: costs and token counts of a decoded entry; pricingKey = ""
\* when the message has no model or no price.
CalculateCost(line) ==
    LET key == IF line.model = Nil THEN "" ELSE GetModelPricing(line.model, line.usage)
        p == modelPricing(key)
        u == line.usage
        inputCost == u.input_tokens * p.Input
        cacheWriteTokens == u.ephemeral_5m_input_tokens + u.ephemeral_1h_input_tokens
        cacheWriteCost == u.ephemeral_5m_input_tokens * p.Cache5mWrite
                          + u.ephemeral_1h_input_tokens * p.Cache1hWrite
        cacheReadCost == u.cache_read_input_tokens * p.CacheRead
        outputCost == u.output_tokens * p.Output
    IN  IF key = ""
        THEN [Cost |-> 0, InputTokens |-> 0, OutputTokens |-> 0, CacheReadTokens |-> 0,
              CacheWriteTokens |-> 0, InputCost |-> 0, OutputCost |-> 0,
              CacheReadCost |-> 0, CacheWriteCost |-> 0, PricingKey |-> ""]
        ELSE [Cost |-> inputCost + cacheWriteCost + cacheReadCost + outputCost,
              InputTokens |-> u.input_tokens, OutputTokens |-> u.output_tokens,
              CacheReadTokens |-> u.cache_read_input_tokens,
              CacheWriteTokens |-> cacheWriteTokens,
              InputCost |-> inputCost, OutputCost |-> outputCost,
              CacheReadCost |-> cacheReadCost, CacheWriteCost |-> cacheWriteCost,
              PricingKey |-> key]

(***************************************************************************)
(* The parser's loop body: json.Unmarshal, CalculateCost and the           *)
(* construction of the CostRecord.  <<>> when the line yields no record.   *)
(***************************************************************************)
\* (variant: the date string does not tell the days apart)
DateString_SameForAll(t) == 0

\* localTime.Format("2006-01-02"): the calendar day, as its day number.
DateString(t) == t \div SecondsPerDay

\* record := CostRecord{...} of a decoded line.
NewCostRecord(work) ==
    LET line == work.Line
        c == CalculateCost(line)
    IN  [UUID |-> line.uuid, RequestID |-> line.requestId,
         Cost |-> c.Cost, InputTokens |-> c.InputTokens,
         OutputTokens |-> c.OutputTokens, CacheReadTokens |-> c.CacheReadTokens,
         CacheWriteTokens |-> c.CacheWriteTokens, InputCost |-> c.InputCost,
         OutputCost |-> c.OutputCost, CacheReadCost |-> c.CacheReadCost,
         CacheWriteCost |-> c.CacheWriteCost, PricingKey |-> c.PricingKey,
         Timestamp |-> DateString(line.timestamp),
         FullTimestamp |-> line.timestamp,
         FromHistory |-> work.FromHistory, RawLine |-> line]

\* (variant: the pricing key is not looked at)
ParseLine_NoPriceCheck(work) ==
    IF ~work.Line.decodes THEN <<>> ELSE <<NewCostRecord(work)>>

ParseLine(work) ==
    IF ~work.Line.decodes THEN <<>>
    ELSE IF CalculateCost(work.Line).PricingKey = "" THEN <<>>
    ELSE <<NewCostRecord(work)>>

(***************************************************************************)
(* Metrics and grouping.                                                   *)
(***************************************************************************)
ZeroMetrics ==
    [Cost |-> 0, InputTokens |-> 0, OutputTokens |-> 0, CacheReadTokens |-> 0,
     CacheWriteTokens |-> 0, InputCost |-> 0, OutputCost |-> 0,
     CacheReadCost |-> 0, CacheWriteCost |-> 0]

\* getGroupConfig(groupBy).BuildGroupKey
BuildGroupKey(groupBy, record) ==
    CASE groupBy = "day" -> <<record.Timestamp>>
      [] groupBy = "model" -> <<record.PricingKey>>
      [] OTHER -> <<record.Timestamp, record.PricingKey>>

\* (variant: the fold starts a new map that holds the group of the record)
FoldRecord_DropsOtherGroups(metrics, by, record) ==
    LET k == BuildGroupKey(by, record)
        m == IF k \in DOMAIN metrics THEN metrics[k] ELSE ZeroMetrics
    IN  [x \in {k} |-> [m EXCEPT !.Cost = @ + record.Cost,
                                  !.InputTokens = @ + record.InputTokens]]

\* m := metricsByGroup[groupKey]; m.X += record.X ...; metricsByGroup[groupKey] = m
FoldRecord(metrics, groupBy, record) ==
    LET k == BuildGroupKey(groupBy, record)
        m == IF k \in DOMAIN metrics THEN metrics[k] ELSE ZeroMetrics
        n == [Cost |-> m.Cost + record.Cost,
              InputTokens |-> m.InputTokens + record.InputTokens,
              OutputTokens |-> m.OutputTokens + record.OutputTokens,
              CacheReadTokens |-> m.CacheReadTokens + record.CacheReadTokens,
              CacheWriteTokens |-> m.CacheWriteTokens + record.CacheWriteTokens,
              InputCost |-> m.InputCost + record.InputCost,
              OutputCost |-> m.OutputCost + record.OutputCost,
              CacheReadCost |-> m.CacheReadCost + record.CacheReadCost,
              CacheWriteCost |-> m.CacheWriteCost + record.CacheWriteCost]
    IN  [x \in DOMAIN metrics \cup {k} |-> IF x = k THEN n ELSE metrics[x]]

(***************************************************************************)
(* history.go.  A file name is its base name without ".jsonl", as the      *)
(* sequence of its characters: a run of decimal digits is given by its     *)
(* value, the character "-" by Dash.                                       *)
(***************************************************************************)
\* The character "-".
Dash == -1

\* A character that is neither a digit nor "-".
Letter == -2

\* strconv.FormatInt(n, 10)
FormatInt(n) == IF n < 0 THEN <<Dash, 0 - n>> ELSE <<n>>

\* strconv.ParseInt(part, 10, 64) of a piece of a name
ParseInt(part) ==
    IF Len(part) = 1 /\ part[1] >= 0
    THEN [value |-> part[1], err |-> FALSE]
    ELSE [value |-> 0, err |-> TRUE]

\* strings.Split(s, sep)
RECURSIVE Split(_, _)
Split(s, sep) ==
    IF \A i \in DOMAIN s : s[i] # sep THEN <<s>>
    ELSE LET k == CHOOSE i \in DOMAIN s :
                     s[i] = sep /\ \A j \in 1..(i - 1) : s[j] # sep
         IN  <<SubSeq(s, 1, k - 1)>> \o Split(SubSeq(s, k + 1, Len(s)), sep)

\* startOfDay.Format("2006-01-02"), for the days around the epoch.
CivilDate(start) ==
    LET day == start \div SecondsPerDay
    IN  IF day < 0 THEN <<1969, Dash, 12, Dash, 32 + day>>
        ELSE <<1970, Dash, 1, Dash, day + 1>>

HistoryFilename(t) ==
    LET startOfDay == t - (t % SecondsPerDay)
        endOfDay == startOfDay + SecondsPerDay
    IN  CivilDate(startOfDay) \o <<Dash>> \o FormatInt(startOfDay)
            \o <<Dash>> \o FormatInt(endOfDay)

ParseHistoryFilename(name) ==
    LET parts == Split(name, Dash)
        failed == [start |-> 0, end |-> 0, err |-> TRUE]
    IN  IF Len(parts) < 5 THEN failed
        ELSE IF ParseInt(parts[4]).err THEN failed
        ELSE IF ParseInt(parts[5]).err THEN failed
        ELSE [start |-> ParseInt(parts[4]).value, end |-> ParseInt(parts[5]).value,
              err |-> FALSE]

\* (variant: the error of ParseHistoryFilename is not looked at)
FileOverlapsRange_IgnoresError(filename, queryStart, queryEnd) ==
    LET p == ParseHistoryFilename(filename)
    IN  p.start < queryEnd /\ p.end > queryStart

FileOverlapsRange(filename, queryStart, queryEnd) ==
    LET p == ParseHistoryFilename(filename)
    IN  IF p.err THEN FALSE
        ELSE p.start < queryEnd /\ p.end > queryStart

FilterFilesForRange(files, queryStart, queryEnd) ==
    SelectSeq(files, LAMBDA f : FileOverlapsRange(f, queryStart, queryEnd))

\* The entries of the history directory in os.ReadDir (name) order.
RECURSIVE SortedNames(_)
SortedNames(S) ==
    IF S = {} THEN <<>>
    ELSE LET key(x) == (x[1] * 100 + x[3]) * 100 + x[5]
             f == CHOOSE x \in S : \A y \in S : key(x) <= key(y)
         IN  <<f>> \o SortedNames(S \ {f})

\* ListHistoryFiles on a readable directory `dir` (file name -> content).
ListHistoryFiles(dir) == SortedNames(DOMAIN dir)

(***************************************************************************)
(* The content of a history file is the sequence of the pieces written to  *)
(* it: the bytes of a whole line, the first bytes of a line (a write that  *)
(* stopped short), or a newline.                                           *)
(***************************************************************************)
NL == [kind |-> "nl", line |-> EmptyLine]
LineBytes(l) == IF l.len = 0 THEN <<>> ELSE <<[kind |-> "line", line |-> l]>>
\* The first bytes of a line: bytes that do not decode.
PartialBytes(l) == IF l.len = 0 THEN <<>> ELSE <<[kind |-> "part", line |-> TruncatedLine]>>

\* The length of a line is one of four classes.  0: no byte; 1: up to the
\* buffer of the file readers (2 MiB); 2: beyond that, up to the buffer of
\* LoadUUIDs (10 MiB); 3: beyond both.
ReaderMaxLine == 1
LoadMaxLine == 2

\* A line longer than both buffers.
OversizeLine ==
    [len |-> 3, decodes |-> FALSE, uuid |-> "", requestId |-> Nil,
     timestamp |-> 0, model |-> Nil, usage |-> Usage(0, 0, 0, 0, 0)]

\* The line the scanner makes of the pieces between two newlines: the line
\* itself if it is there alone and whole; otherwise bytes that do not decode.
SegmentLine(seg) ==
    IF seg = <<>> THEN EmptyLine
    ELSE IF \E i \in DOMAIN seg : seg[i].line.len > LoadMaxLine THEN OversizeLine
    ELSE IF Len(seg) = 1 /\ seg[1].kind = "line" THEN seg[1].line
    ELSE TruncatedLine

\* bufio.ScanLines over a content: the lines between newlines, and the
\* unterminated rest if it is not empty.
ScanLines(content) ==
    LET segs == Split(content, NL)
        n == Len(segs)
    IN  [i \in 1..(n - 1) |-> SegmentLine(segs[i])]
        \o (IF segs[n] = <<>> THEN <<>> ELSE <<SegmentLine(segs[n])>>)

\* The lines scanner.Scan() delivers before it stops: all of them, or those
\* before the first line that exceeds the buffer (scanner.Err() # nil).
Scanned(ls, max) ==
    LET over == {i \in DOMAIN ls : ls[i].len > max}
        n == IF over = {} THEN Len(ls)
             ELSE (CHOOSE i \in over : \A j \in over : i <= j) - 1
    IN  [lines |-> SubSeq(ls, 1, n), err |-> over # {}]

\* LoadUUIDs: the non-empty uuids of the decodable lines the scanner
\* delivers, and scanner.Err(); a missing file is an empty set.
LoadUUIDs(dir, file) ==
    IF file \notin DOMAIN dir THEN [ids |-> {}, err |-> FALSE]
    ELSE LET sc == Scanned(ScanLines(dir[file]), LoadMaxLine)
             ls == sc.lines
         IN  [ids |-> {ls[i].uuid : i \in {j \in DOMAIN ls :
                          ls[j].len > 0 /\ ls[j].decodes /\ ls[j].uuid # ""}},
              err |-> sc.err]

\* (variant: the newline is not written)
LineWrites_NoNewline(line) == << LineBytes(line), <<>> >>

\* The two Write calls of the loop body: f.Write(line), f.Write([]byte("\n")).
LineWrites(line) == << LineBytes(line), <<NL>> >>

\* The Write calls of AppendRawLines, in order.
RECURSIVE BatchWrites(_)
BatchWrites(lines) ==
    IF lines = <<>> THEN <<>>
    ELSE LineWrites(Head(lines)) \o BatchWrites(Tail(lines))

RECURSIVE Concat(_)
Concat(ss) == IF ss = <<>> THEN <<>> ELSE Head(ss) \o Concat(Tail(ss))

\* The I/O failures one call of AppendRawLines may meet: MkdirAll or
\* OpenFile fails; a Write fails after `writes` successful ones, having
\* written nothing or the first bytes of its piece; Sync fails.
NoAppendFault == [kind |-> "none", writes |-> 0]
AppendFaults(lines) ==
    {[kind |-> "open", writes |-> 0], [kind |-> "sync", writes |-> 0]}
    \cup {[kind |-> "write", writes |-> w] : w \in 0..(2 * Len(lines) - 1)}
    \cup {[kind |-> "short", writes |-> 2 * (i - 1)] :
              i \in {j \in DOMAIN lines : lines[j].len > 0}}

\* (variant: the file is opened with O_TRUNC)
OpenedForAppend_Truncated(dir, file) == <<>>

\* os.OpenFile(file, O_APPEND|O_CREATE|O_WRONLY): the content the writes
\* are added to.
OpenedForAppend(dir, file) == IF file \in DOMAIN dir THEN dir[file] ELSE <<>>

\* AppendRawLines: the directory it leaves, the error it returns, whether
\* the bytes it wrote were synced, and whether it called os.MkdirAll for the
\* parent directory.
AppendRawLines(dir, file, lines, fault) ==
    IF Len(lines) = 0
    THEN [dir |-> dir, err |-> FALSE, synced |-> FALSE, mkdir |-> FALSE]
    ELSE IF fault.kind = "open"
    THEN [dir |-> dir, err |-> TRUE, synced |-> FALSE, mkdir |-> TRUE]
    ELSE LET old == OpenedForAppend(dir, file)
             ws == BatchWrites(lines)
             failing == fault.kind \in {"write", "short"} /\ fault.writes < Len(ws)
             done == IF failing THEN SubSeq(ws, 1, fault.writes) ELSE ws
             rest == IF failing /\ fault.kind = "short"
                        /\ ws[fault.writes + 1] # <<NL>>
                        /\ ws[fault.writes + 1] # <<>>
                     THEN PartialBytes(ws[fault.writes + 1][1].line)
                     ELSE <<>>
             new == old \o Concat(done) \o rest
         IN  [dir |-> [f \in DOMAIN dir \cup {file} |->
                          IF f = file THEN new ELSE dir[f]],
              err |-> failing \/ fault.kind = "sync",
              synced |-> ~failing /\ fault.kind # "sync",
              mkdir |-> TRUE]

SeqToSet(s) == {s[i] : i \in DOMAIN s}

(***************************************************************************)
(* Inputs: the lines the primary logs may hold.                            *)
(***************************************************************************)
\* two records of request r1 with different costs
LineR1 == EventLine("a", "r1", 3600, "claude-sonnet-4", Usage(1, 0, 0, 0, 0))
LineR2 == EventLine("b", "r1", 3600, "claude-sonnet-4", Usage(2, 0, 0, 0, 0))
\* a record of request r1 with the cost of LineR1, on another day and model
LineR3 == EventLine("c", "r1", 90000, "claude-haiku-4-5", Usage(3, 0, 0, 0, 0))
\* two different lines without requestId that carry the same uuid
LineU1 == EventLine("d", Nil, 3600, "claude-sonnet-4", Usage(1, 0, 0, 0, 0))
LineU2 == EventLine("d", Nil, 90000, "claude-sonnet-4", Usage(0, 1, 0, 0, 0))
\* a line with neither requestId nor uuid
LineE0 == EventLine("", Nil, 3600, "claude-3-haiku", Usage(4, 0, 0, 0, 0))
\* a line of a model without price
LineX0 == EventLine("x", Nil, 3600, "gpt-4", Usage(1, 1, 0, 0, 0))

EventLines == {LineR1, LineR2, LineR3, LineU1, LineU2, LineE0}
Lines == EventLines \cup {LineX0, TruncatedLine, EmptyLine}

\* The primary logs of a behaviour are the files of the projects directory
\* in WalkDir order, each a sequence of lines.
\* Two files of one line each, over all lines.
PairLogs == {<< <<a>>, <<b>> >> : a, b \in Lines}
\* A file of two lines and a file of one line, over the lines of request r1
\* and the two lines of uuid d.
TripleLogs == {<< <<a, b>>, <<c>> >> : a, b, c \in {LineR1, LineR2, LineR3, LineU1, LineU2}}
\* One file of one line, and one file of two lines (of one day, and of two
\* days with the later line first), for behaviours of several runs.
RerunLogs ==
    {<< <<a>> >> : a \in Lines} \cup {<< <<LineR1, LineU1>> >>, << <<LineU2, LineR1>> >>}

\* One file of two lines whose timestamps lie at the ends of the days
\* around the epoch.
DayLine(t) == EventLine("t", Nil, t, "claude-sonnet-4", Usage(1, 0, 0, 0, 0))
DayTimes == {0 - 1, 0, SecondsPerDay - 1, SecondsPerDay}
DayLogs ==
    {<< <<DayLine(a), l>> >> : a \in DayTimes,
                               l \in {DayLine(b) : b \in DayTimes} \cup {LineR1}}

\* One file of valid lines of one day with a truncated trailing line.
ScenarioLogs ==
    {<< <<LineR1, b, LineU1, TruncatedLine>> >> : b \in {LineR2, LineE0, LineX0, EmptyLine}}

\* Lines whose requestId is present and empty ("requestId": ""), and a
\* second line without requestId; logs of two of these lines, in two files
\* or in one.
LineQ1 == EventLine("e", "", 3600, "claude-sonnet-4", Usage(1, 0, 0, 0, 0))
LineQ2 == EventLine("f", "", 3600, "claude-sonnet-4", Usage(2, 0, 0, 0, 0))
LineN2 == EventLine("n", Nil, 3600, "claude-sonnet-4", Usage(2, 0, 0, 0, 0))
RequestLines == {LineQ1, LineQ2, LineU1, LineN2}
RequestLogs ==
    {<< <<a>>, <<b>> >> : a, b \in RequestLines}
    \cup {<< <<a, b>> >> : a, b \in RequestLines}

GroupBys == {"day"}

(***************************************************************************)
(* State.                                                                  *)
(***************************************************************************)
VARIABLES
    logs,               \* the primary log files (path = index) and their lines
    history,            \* the history directory: file name -> lines
    groupBy,            \* the grouping chosen by -o
    run,                \* number of the current run
    faults,             \* I/O failures injected so far
    histAtStart,        \* the history directory as the current run found it
    mainPc,             \* position of main()
    jsonlFiles,         \* main: paths found by WalkDir
    historyFiles,       \* main: result of ListHistoryFiles
    loadedHistoryFiles, \* main: history files marked as loaded
    sent,               \* main: number of FileWork items sent
    fileChan, fileClosed,
    lineChan, lineClosed,
    costChan, costClosed,
    reader,             \* reader goroutines: pc, open file, lines left, errors logged
    parser,             \* parser goroutines: pc, record being sent, and
                        \* (history) whether the worker has skipped a line
    accPc,              \* accumulator goroutine: collect, fold, done
    maxCostByRequestID, seenUUIDs, metricsByGroup, allRecords,
    claudeRecords, historyUUIDs,
    claudeMinTime, claudeMaxTime, claudeTimeInitialized,
    foldKeys,           \* accumulator: keys the second pass has still to visit
    received,           \* history variable: records in the order received
    panicked,           \* a goroutine sent on a closed channel
    saveFault,          \* history variable: the I/O failure saveToHistory met
    lastCall            \* the last direct call of a function of history.go

envVars == <<logs, lastCall, history, groupBy, run, faults, histAtStart>>
mainVars == <<mainPc, jsonlFiles, historyFiles, loadedHistoryFiles, sent, saveFault>>
chanVars == <<fileChan, fileClosed, lineChan, lineClosed, costChan, costClosed>>
accVars == <<accPc, maxCostByRequestID, seenUUIDs, metricsByGroup, allRecords,
             claudeRecords, historyUUIDs, claudeMinTime, claudeMaxTime,
             claudeTimeInitialized, foldKeys, received>>
vars == <<envVars, mainVars, chanVars, reader, parser, accVars, panicked>>

EmptyMap == [x \in {} |-> 0]

\* saveToHistory met no I/O failure.
NoFault == [kind |-> "none", file |-> <<>>, append |-> NoAppendFault]

\* A reader goroutine before its first path: no file open, nothing logged.
IdleReader ==
    [pc |-> "recv", lines |-> <<>>, fromHistory |-> FALSE, path |-> <<>>,
     tooLong |-> FALSE, errors |-> {}]

\* A parser goroutine before its first line.
IdleParser == [pc |-> "recv", record |-> <<>>, skipped |-> FALSE]

\* The state main() builds before any goroutine moves.
StartOfRun ==
    /\ mainPc = "start"
    /\ jsonlFiles = <<>> /\ historyFiles = <<>> /\ loadedHistoryFiles = {}
    /\ sent = 0 /\ saveFault = NoFault
    /\ fileChan = <<>> /\ fileClosed = FALSE
    /\ lineChan = <<>> /\ lineClosed = FALSE
    /\ costChan = <<>> /\ costClosed = FALSE
    /\ reader = [i \in Readers |-> IdleReader]
    /\ parser = [i \in Parsers |-> IdleParser]
    /\ accPc = "collect"
    /\ maxCostByRequestID = EmptyMap /\ seenUUIDs = {}
    /\ metricsByGroup = EmptyMap /\ allRecords = <<>>
    /\ claudeRecords = <<>> /\ historyUUIDs = {}
    /\ claudeMinTime = 0 /\ claudeMaxTime = 0 /\ claudeTimeInitialized = FALSE
    /\ foldKeys = {} /\ received = <<>>
    /\ panicked = FALSE

\* No function of history.go has been called directly.
NoCall == [op |-> "none", arg |-> <<>>, res |-> <<>>]

InitWith(logSets, groupBys) ==
    /\ logs \in logSets
    /\ lastCall = NoCall
    /\ groupBy \in groupBys
    /\ history = EmptyMap
    /\ histAtStart = EmptyMap
    /\ run = 1
    /\ faults = 0
    /\ StartOfRun

\* Behaviours of several runs of the tool.
Init == InitWith(RerunLogs, GroupBys)

\* Behaviours of one run of the tool over an empty history directory.
RunInit == InitWith(PairLogs \cup TripleLogs, GroupBys)

(***************************************************************************)
(* Channels.                                                               *)
(***************************************************************************)
\* (variant: a send never waits)
CanSend_Always(ch, cap) == TRUE

\* A send on a buffered channel proceeds when the buffer has room.
CanSend(ch, cap) == Len(ch) < cap

\* (variant: a range loop ends as soon as the queue is empty)
RangeEnds_WhenEmpty(ch, closed) == ch = <<>>

\* `for x := range ch` ends when ch is closed and drained.
RangeEnds(ch, closed) == closed /\ ch = <<>>

\* cap(fileChan) = len(jsonlFiles)+len(historyFiles)
FileChanCap == Len(jsonlFiles) + Len(historyFiles)

(***************************************************************************)
(* main(): discovery and dispatch.                                         *)
(***************************************************************************)
\* WalkDir over the projects directory, ListHistoryFiles (a failure is only
\* warned about and leaves historyFiles empty), loadedHistoryFiles.
MainStart ==
    /\ mainPc = "start"
    /\ jsonlFiles' = [i \in DOMAIN logs |-> i]
    /\ \E ok \in BOOLEAN :
         /\ ok \/ faults < MaxFaults
         /\ faults' = IF ok THEN faults ELSE faults + 1
         /\ historyFiles' = IF ok THEN ListHistoryFiles(history) ELSE <<>>
    /\ loadedHistoryFiles' = SeqToSet(historyFiles')
    /\ histAtStart' = history
    /\ mainPc' = "dispatch"
    /\ UNCHANGED <<logs, lastCall, history, groupBy, run, sent, saveFault, chanVars, reader, parser,
                   accVars, panicked>>

\* The k-th FileWork main sends: the primary logs first, then the history files.
FileWorkAt(k) ==
    IF k <= Len(jsonlFiles)
    THEN [Path |-> <<jsonlFiles[k]>>, FromHistory |-> FALSE]
    ELSE [Path |-> historyFiles[k - Len(jsonlFiles)], FromHistory |-> TRUE]

\* fileChan <- FileWork{...}
MainSendFile ==
    /\ mainPc = "dispatch"
    /\ sent < Len(jsonlFiles) + Len(historyFiles)
    /\ CanSend(fileChan, FileChanCap)
    /\ fileChan' = Append(fileChan, FileWorkAt(sent + 1))
    /\ sent' = sent + 1
    /\ UNCHANGED <<envVars, mainPc, jsonlFiles, historyFiles, loadedHistoryFiles,
                   saveFault, fileClosed, lineChan, lineClosed, costChan, costClosed,
                   reader, parser, accVars, panicked>>

\* (variant: main forgets close(fileChan))
MainCloseFileChan_NoClose ==
    /\ mainPc = "dispatch"
    /\ sent = Len(jsonlFiles) + Len(historyFiles)
    /\ mainPc' = "waitReaders"
    /\ UNCHANGED <<envVars, jsonlFiles, historyFiles, loadedHistoryFiles, sent, saveFault,
                   chanVars, reader, parser, accVars, panicked>>

\* close(fileChan)
MainCloseFileChan ==
    /\ mainPc = "dispatch"
    /\ sent = Len(jsonlFiles) + Len(historyFiles)
    /\ fileClosed' = TRUE
    /\ mainPc' = "waitReaders"
    /\ UNCHANGED <<envVars, jsonlFiles, historyFiles, loadedHistoryFiles, sent, saveFault,
                   fileChan, lineChan, lineClosed, costChan, costClosed,
                   reader, parser, accVars, panicked>>

\* (variant: main does not wait for the readers)
AllReadersDone_NoWait == TRUE

AllReadersDone == \A i \in Readers : reader[i].pc = "done"
AllParsersDone == \A i \in Parsers : parser[i].pc = "done"

\* fileWg.Wait(); close(lineChan)
MainCloseLineChan ==
    /\ mainPc = "waitReaders"
    /\ AllReadersDone
    /\ lineClosed' = TRUE
    /\ mainPc' = "waitParsers"
    /\ UNCHANGED <<envVars, jsonlFiles, historyFiles, loadedHistoryFiles, sent, saveFault,
                   fileChan, fileClosed, lineChan, costChan, costClosed,
                   reader, parser, accVars, panicked>>

\* lineWg.Wait(); close(costChan)
MainCloseCostChan ==
    /\ mainPc = "waitParsers"
    /\ AllParsersDone
    /\ costClosed' = TRUE
    /\ mainPc' = "waitAcc"
    /\ UNCHANGED <<envVars, jsonlFiles, historyFiles, loadedHistoryFiles, sent, saveFault,
                   fileChan, fileClosed, lineChan, lineClosed, costChan,
                   reader, parser, accVars, panicked>>

\* accWg.Wait()
\* (variant: main does not wait for the accumulator)
AccumulatorDone_NoWait == TRUE

\* accWg.Wait() returns: the accumulator goroutine has returned.
AccumulatorDone == accPc = "done"

MainWaitAcc ==
    /\ mainPc = "waitAcc"
    /\ AccumulatorDone
    /\ mainPc' = "save"
    /\ UNCHANGED <<envVars, jsonlFiles, historyFiles, loadedHistoryFiles, sent, saveFault,
                   chanVars, reader, parser, accVars, panicked>>

(***************************************************************************)
(* File readers: the worker loop and processJSONLFile.                     *)
(***************************************************************************)
\* The scanner loop up to the next send: zero-length lines are skipped.
RECURSIVE SkipEmpty(_)
SkipEmpty(ls) ==
    IF ls = <<>> THEN <<>>
    ELSE IF Head(ls).len = 0 THEN SkipEmpty(Tail(ls))
    ELSE ls

\* (variant: the line sent is scanner.Bytes(), a view of the buffer of
\* worker i)
LineCopy_Alias(i, line) == [bytes |-> line, shares |-> i]

\* lineCopy := make([]byte, len(line)); copy(lineCopy, line): a slice that
\* shares its bytes with no buffer (0).
LineCopy(i, line) == [bytes |-> line, shares |-> 0]

\* (variant: every line is tagged as a line of a primary log)
NewLineWork_Untagged(lineCopy, fromHistory) ==
    [Line |-> lineCopy.bytes, Shares |-> lineCopy.shares, FromHistory |-> FALSE]

\* LineWork{Line: lineCopy, FromHistory: fromHistory}
NewLineWork(lineCopy, fromHistory) ==
    [Line |-> lineCopy.bytes, Shares |-> lineCopy.shares, FromHistory |-> fromHistory]

\* The bytes a holder of the LineWork reads.  A private copy keeps its
\* bytes.  A view of the buffer of a worker shows the line the scanner of
\* that worker is at now (scanner.Bytes() is valid until the next Scan);
\* when that worker scans no file, the buffer is as the last read left it.
BytesOf(work, readers) ==
    IF work.Shares = 0 THEN work.Line
    ELSE IF readers[work.Shares].lines = <<>> THEN work.Line
    ELSE Head(readers[work.Shares].lines)

\* The scan of the file a FileWork names, with the buffer of the worker.
FileScan(work) ==
    Scanned(IF work.FromHistory THEN ScanLines(history[work.Path])
            ELSE logs[work.Path[1]], ReaderMaxLine)

\* The lines of the file a FileWork names.
FileLines(work) == FileScan(work).lines

\* (variant: the worker returns after a file failed)
AfterFileError_Return == "done"

\* Where the worker goes after processJSONLFile returned an error: the error
\* is logged and the loop takes the next path.
AfterFileError == "recv"

\* processJSONLFile returned to the worker loop: an error is logged with the
\* path of the file.
FileReturned(r, failed) ==
    [r EXCEPT !.pc = IF failed THEN AfterFileError ELSE "recv",
              !.lines = <<>>, !.path = <<>>, !.tooLong = FALSE,
              !.errors = IF failed THEN r.errors \cup {r.path} ELSE r.errors]

\* work := <-fileChan; os.Open (a failure is logged and the next path taken);
\* scan to the first non-empty line.
ReaderRecv(i) ==
    /\ reader[i].pc = "recv"
    /\ fileChan # <<>>
    /\ fileChan' = Tail(fileChan)
    /\ \E ok \in BOOLEAN :
         /\ ok \/ faults < MaxFaults
         /\ faults' = IF ok THEN faults ELSE faults + 1
         /\ LET work == Head(fileChan)
                ls == IF ok THEN SkipEmpty(FileLines(work)) ELSE <<>>
                opened == [reader[i] EXCEPT
                              !.pc = "send", !.lines = ls,
                              !.fromHistory = work.FromHistory,
                              !.path = work.Path,
                              !.tooLong = ok /\ FileScan(work).err]
            IN  reader' = [reader EXCEPT ![i] =
                    IF ls = <<>> THEN FileReturned(opened, ~ok \/ opened.tooLong)
                    ELSE opened]
    /\ UNCHANGED <<logs, lastCall, history, groupBy, run, histAtStart, mainVars,
                   fileClosed, lineChan, lineClosed, costChan, costClosed,
                   parser, accVars, panicked>>

\* lineChan <- LineWork{Line: lineCopy, FromHistory: fromHistory}, then scan
\* to the next non-empty line; at end of file, or at a line longer than the
\* buffer, back to the worker loop.
ReaderSend(i) ==
    /\ reader[i].pc = "send"
    /\ lineClosed \/ CanSend(lineChan, ChanCap)
    /\ IF lineClosed
       THEN /\ panicked' = TRUE
            /\ UNCHANGED lineChan
       ELSE /\ lineChan' = Append(lineChan,
                                  NewLineWork(LineCopy(i, Head(reader[i].lines)),
                                              reader[i].fromHistory))
            /\ UNCHANGED panicked
    /\ LET ls == SkipEmpty(Tail(reader[i].lines))
           r == [reader[i] EXCEPT !.lines = ls]
       IN  reader' = [reader EXCEPT ![i] =
               IF ls = <<>> THEN FileReturned(r, r.tooLong) ELSE r]
    /\ UNCHANGED <<envVars, mainVars, fileChan, fileClosed, lineClosed,
                   costChan, costClosed, parser, accVars>>

\* scanner.Err() # nil: a read fails, the rest of the file is not delivered.
ReaderReadError(i) ==
    /\ reader[i].pc = "send"
    /\ faults < MaxFaults
    /\ faults' = faults + 1
    /\ reader' = [reader EXCEPT ![i] = FileReturned(reader[i], TRUE)]
    /\ UNCHANGED <<logs, lastCall, history, groupBy, run, histAtStart, mainVars, chanVars,
                   parser, accVars, panicked>>

\* range fileChan ends: the worker returns.
ReaderExit(i) ==
    /\ reader[i].pc = "recv"
    /\ RangeEnds(fileChan, fileClosed)
    /\ reader' = [reader EXCEPT ![i].pc = "done"]
    /\ UNCHANGED <<envVars, mainVars, chanVars, parser, accVars, panicked>>

(***************************************************************************)
(* Line parsers.                                                           *)
(***************************************************************************)
\* work := <-lineChan; decode and price; a line without record is skipped.
ParserRecv(i) ==
    /\ parser[i].pc = "recv"
    /\ lineChan # <<>>
    /\ lineChan' = Tail(lineChan)
    /\ LET r == ParseLine([Head(lineChan) EXCEPT !.Line = BytesOf(Head(lineChan), reader)])
       IN  parser' = [parser EXCEPT ![i] =
               [pc |-> IF r = <<>> THEN "recv" ELSE "send", record |-> r,
                skipped |-> parser[i].skipped \/ r = <<>>]]
    /\ UNCHANGED <<envVars, mainVars, fileChan, fileClosed, lineClosed,
                   costChan, costClosed, reader, accVars, panicked>>

\* costChan <- record
ParserSend(i) ==
    /\ parser[i].pc = "send"
    /\ costClosed \/ CanSend(costChan, ChanCap)
    /\ IF costClosed
       THEN /\ panicked' = TRUE
            /\ UNCHANGED costChan
       ELSE /\ costChan' = Append(costChan, parser[i].record[1])
            /\ UNCHANGED panicked
    /\ parser' = [parser EXCEPT ![i].pc = "recv", ![i].record = <<>>]
    /\ UNCHANGED <<envVars, mainVars, fileChan, fileClosed, lineChan, lineClosed,
                   costClosed, reader, accVars>>

\* range lineChan ends: the worker returns.
ParserExit(i) ==
    /\ parser[i].pc = "recv"
    /\ RangeEnds(lineChan, lineClosed)
    /\ parser' = [parser EXCEPT ![i].pc = "done"]
    /\ UNCHANGED <<envVars, mainVars, chanVars, reader, accVars, panicked>>

(***************************************************************************)
(* The deduplicating accumulator.                                          *)
(***************************************************************************)
\* (variant: a later record of the same cost replaces the retained one)
ReplacesRetained_OnTie(existing, record) == record.Cost >= existing.Cost

\* (variant: the later record always replaces the retained one)
ReplacesRetained_Always(existing, record) == TRUE

\* (variant: a cheaper record replaces the retained one)
ReplacesRetained_OnLower(existing, record) == record.Cost < existing.Cost

\* else if record.Cost > existing.Cost
ReplacesRetained(existing, record) == record.Cost > existing.Cost

\* if existing, seen := maxCostByRequestID[*record.RequestID]; !seen {...}
\* else if record.Cost > existing.Cost {...}
RetainMax(retained, record) ==
    IF record.RequestID \notin DOMAIN retained
    THEN [k \in DOMAIN retained \cup {record.RequestID} |->
             IF k = record.RequestID THEN record ELSE retained[k]]
    ELSE IF ReplacesRetained(retained[record.RequestID], record)
    THEN [retained EXCEPT ![record.RequestID] = record]
    ELSE retained

\* (variant: no record is taken for a duplicate)
IsSeenUUID_Never(seen, record) == FALSE

\* record.UUID != "" && seenUUIDs[record.UUID]
IsSeenUUID(seen, record) == record.UUID # "" /\ record.UUID \in seen

\* The first pass: the body of `for record := range costChan`.
\* (variant: records read from history files are tracked for saving too)
IsClaudeRecord_AnySource(record) == record.RawLine.len > 0

\* !record.FromHistory && len(record.RawLine) > 0
IsClaudeRecord(record) == ~record.FromHistory /\ record.RawLine.len > 0

AccRecv ==
    /\ accPc = "collect"
    /\ costChan # <<>>
    /\ LET record == Head(costChan)
       IN  /\ costChan' = Tail(costChan)
           /\ received' = Append(received, record)
           /\ historyUUIDs' = IF record.FromHistory /\ record.UUID # ""
                              THEN historyUUIDs \cup {record.UUID}
                              ELSE historyUUIDs
           /\ IF IsClaudeRecord(record)
              THEN /\ claudeRecords' = Append(claudeRecords, record)
                   /\ claudeTimeInitialized' = TRUE
                   /\ claudeMinTime' =
                        IF ~claudeTimeInitialized \/ record.FullTimestamp < claudeMinTime
                        THEN record.FullTimestamp ELSE claudeMinTime
                   /\ claudeMaxTime' =
                        IF ~claudeTimeInitialized \/ record.FullTimestamp > claudeMaxTime
                        THEN record.FullTimestamp ELSE claudeMaxTime
              ELSE UNCHANGED <<claudeRecords, claudeTimeInitialized,
                               claudeMinTime, claudeMaxTime>>
           /\ IF record.RequestID # Nil
              THEN /\ maxCostByRequestID' = RetainMax(maxCostByRequestID, record)
                   /\ UNCHANGED <<seenUUIDs, metricsByGroup, allRecords>>
              ELSE IF IsSeenUUID(seenUUIDs, record)
              THEN UNCHANGED <<maxCostByRequestID, seenUUIDs, metricsByGroup, allRecords>>
              ELSE /\ seenUUIDs' = IF record.UUID # "" THEN seenUUIDs \cup {record.UUID}
                                   ELSE seenUUIDs
                   /\ metricsByGroup' = FoldRecord(metricsByGroup, groupBy, record)
                   /\ allRecords' = Append(allRecords, record)
                   /\ UNCHANGED maxCostByRequestID
    /\ UNCHANGED <<envVars, mainVars, fileChan, fileClosed, lineChan, lineClosed,
                   costClosed, reader, parser, accPc, foldKeys, panicked>>

\* range costChan ends: the second pass begins.
AccStartFold ==
    /\ accPc = "collect"
    /\ RangeEnds(costChan, costClosed)
    /\ accPc' = "fold"
    /\ foldKeys' = DOMAIN maxCostByRequestID
    /\ UNCHANGED <<envVars, mainVars, chanVars, reader, parser, maxCostByRequestID,
                   seenUUIDs, metricsByGroup, allRecords, claudeRecords, historyUUIDs,
                   claudeMinTime, claudeMaxTime, claudeTimeInitialized, received,
                   panicked>>

\* (variant: the second pass folds a record without recording it)
AccFold_NotRecorded ==
    /\ accPc = "fold"
    /\ \E k \in foldKeys :
         /\ metricsByGroup' = FoldRecord(metricsByGroup, groupBy, maxCostByRequestID[k])
         /\ allRecords' = allRecords
         /\ foldKeys' = foldKeys \ {k}
    /\ UNCHANGED <<envVars, mainVars, chanVars, reader, parser, accPc,
                   maxCostByRequestID, seenUUIDs, claudeRecords, historyUUIDs,
                   claudeMinTime, claudeMaxTime, claudeTimeInitialized, received,
                   panicked>>

\* One iteration of `for _, record := range maxCostByRequestID` (the map is
\* visited in an unspecified order).
AccFold ==
    /\ accPc = "fold"
    /\ \E k \in foldKeys :
         /\ metricsByGroup' = FoldRecord(metricsByGroup, groupBy, maxCostByRequestID[k])
         /\ allRecords' = Append(allRecords, maxCostByRequestID[k])
         /\ foldKeys' = foldKeys \ {k}
    /\ UNCHANGED <<envVars, mainVars, chanVars, reader, parser, accPc,
                   maxCostByRequestID, seenUUIDs, claudeRecords, historyUUIDs,
                   claudeMinTime, claudeMaxTime, claudeTimeInitialized, received,
                   panicked>>

\* The goroutine returns: accWg.Done().
AccExit ==
    /\ accPc = "fold"
    /\ foldKeys = {}
    /\ accPc' = "done"
    /\ UNCHANGED <<envVars, mainVars, chanVars, reader, parser, maxCostByRequestID,
                   seenUUIDs, metricsByGroup, allRecords, claudeRecords, historyUUIDs,
                   claudeMinTime, claudeMaxTime, claudeTimeInitialized, foldKeys,
                   received, panicked>>

(***************************************************************************)
(* saveToHistory.                                                          *)
(***************************************************************************)
\* (variant: the lines are collected last record first)
RawLines_Reversed(records) ==
    [i \in DOMAIN records |-> records[Len(records) + 1 - i].RawLine]

RawLines(records) == [i \in DOMAIN records |-> records[i].RawLine]

\* The I/O failures a call of saveToHistory may meet: ListHistoryFiles
\* fails, LoadUUIDs of one file fails, AppendRawLines of one file fails.
SaveFaults(dir, records) ==
    {[kind |-> "list", file |-> <<>>, append |-> NoAppendFault]}
    \cup {[kind |-> "load", file |-> f, append |-> NoAppendFault] : f \in DOMAIN dir}
    \cup {[kind |-> "append", file |-> HistoryFilename(records[i].FullTimestamp),
           append |-> a] : i \in DOMAIN records, a \in AppendFaults(RawLines(records))}

\* (variant: the first LoadUUIDs that fails ends the loading)
SaveUUIDs_StopsAtFailure(dir, uuids, loaded, minTime, maxTime, fault) ==
    IF fault.kind = "load" THEN uuids
    ELSE uuids \cup UNION {LoadUUIDs(dir, f).ids :
                              f \in {g \in SeqToSet(FilterFilesForRange(
                                                        ListHistoryFiles(dir), minTime,
                                                        maxTime + SecondsPerDay)) :
                                         g \notin loaded /\ ~LoadUUIDs(dir, g).err}}

\* The uuids saveToHistory dedups against: historyUUIDs plus those of the
\* overlapping history files that are not marked loaded and load without
\* error.
SaveUUIDs(dir, uuids, loaded, minTime, maxTime, fault) ==
    LET claudeStartEpoch == minTime
        claudeEndEpoch == maxTime + SecondsPerDay
        additionalFiles ==
            FilterFilesForRange(ListHistoryFiles(dir), claudeStartEpoch, claudeEndEpoch)
        toLoad == {f \in SeqToSet(additionalFiles) :
                      /\ f \notin loaded
                      /\ ~(fault.kind = "load" /\ fault.file = f)
                      /\ ~LoadUUIDs(dir, f).err}
    IN  uuids \cup UNION {LoadUUIDs(dir, f).ids : f \in toLoad}

\* (variant: a record without uuid is not saved)
KeptForSave_NeedsUUID(record, uuids) ==
    /\ record.UUID # "" /\ record.UUID \notin uuids
    /\ record.RawLine.len > 0

\* Skip if already in history (by UUID); skip if no raw line.
KeptForSave(record, uuids) ==
    /\ ~(record.UUID # "" /\ record.UUID \in uuids)
    /\ record.RawLine.len > 0

\* The loop over recordsByDate: one AppendRawLines per date.
RECURSIVE AppendByDate(_, _, _, _)
AppendByDate(dir, dates, kept, fault) ==
    IF dates = {} THEN dir
    ELSE LET d == CHOOSE x \in dates : TRUE
             records == SelectSeq(kept, LAMBDA r : DateString(r.FullTimestamp) = d)
             histFile == HistoryFilename(records[1].FullTimestamp)
             lines == RawLines(records)
             appendFault == IF fault.kind = "append" /\ fault.file = histFile
                            THEN fault.append ELSE NoAppendFault
         IN  AppendByDate(AppendRawLines(dir, histFile, lines, appendFault).dir,
                          dates \ {d}, kept, fault)

\* saveToHistory: the history directory it leaves.
SaveToHistory(dir, records, uuids, loaded, minTime, maxTime, fault) ==
    IF Len(records) = 0 THEN dir
    ELSE IF fault.kind = "list" THEN dir
    ELSE LET all == SaveUUIDs(dir, uuids, loaded, minTime, maxTime, fault)
             kept == SelectSeq(records, LAMBDA r : KeptForSave(r, all))
             dates == {DateString(kept[i].FullTimestamp) : i \in DOMAIN kept}
         IN  AppendByDate(dir, dates, kept, fault)

\* saveToHistory: the historyUUIDs map of its caller, to which it adds the
\* uuids of the files it loads.
SavedUUIDs(dir, records, uuids, loaded, minTime, maxTime, fault) ==
    IF Len(records) = 0 THEN uuids
    ELSE IF fault.kind = "list" THEN uuids
    ELSE SaveUUIDs(dir, uuids, loaded, minTime, maxTime, fault)

\* saveToHistory: whether it returns an error.  Only a failure of
\* ListHistoryFiles is returned; the others are logged.
SaveError(records, fault) == Len(records) > 0 /\ fault.kind = "list"

\* (variant: a failure of the save step ends the run)
AfterSave_Fatal(fault) == IF fault.kind = "none" THEN "render" ELSE "fatal"

\* Where main goes after saveToHistory: an error is logged as a warning.
AfterSave(fault) == "render"

\* saveToHistory(...); its error is logged, and main goes on to render.
MainSave ==
    /\ mainPc = "save"
    /\ \E fault \in {NoFault} \cup SaveFaults(history, claudeRecords) :
         /\ fault.kind = "none" \/ faults < MaxFaults
         /\ faults' = IF fault.kind = "none" THEN faults ELSE faults + 1
         /\ saveFault' = fault
         /\ history' = SaveToHistory(history, claudeRecords, historyUUIDs,
                                     loadedHistoryFiles, claudeMinTime, claudeMaxTime,
                                     fault)
         /\ historyUUIDs' = SavedUUIDs(history, claudeRecords, historyUUIDs,
                                       loadedHistoryFiles, claudeMinTime,
                                       claudeMaxTime, fault)
         /\ mainPc' = AfterSave(fault)
    /\ UNCHANGED <<logs, lastCall, groupBy, run, histAtStart, jsonlFiles, historyFiles,
                   loadedHistoryFiles, sent, chanVars, reader, parser, accPc,
                   maxCostByRequestID, seenUUIDs, metricsByGroup, allRecords,
                   claudeRecords, claudeMinTime, claudeMaxTime, claudeTimeInitialized,
                   foldKeys, received, panicked>>

\* metricsByGroup and allRecords are handed to renderSummary / renderTable.
MainRender ==
    /\ mainPc = "render"
    /\ mainPc' = "done"
    /\ UNCHANGED <<envVars, jsonlFiles, historyFiles, loadedHistoryFiles, sent, saveFault,
                   chanVars, reader, parser, accVars, panicked>>

\* The tool is run again over the same primary logs.
NewRun ==
    /\ mainPc = "done"
    /\ run < MaxRuns
    /\ run' = run + 1
    /\ mainPc' = "start"
    /\ jsonlFiles' = <<>> /\ historyFiles' = <<>> /\ loadedHistoryFiles' = {}
    /\ sent' = 0 /\ saveFault' = NoFault
    /\ fileChan' = <<>> /\ fileClosed' = FALSE
    /\ lineChan' = <<>> /\ lineClosed' = FALSE
    /\ costChan' = <<>> /\ costClosed' = FALSE
    /\ reader' = [i \in Readers |-> IdleReader]
    /\ parser' = [i \in Parsers |-> IdleParser]
    /\ accPc' = "collect"
    /\ maxCostByRequestID' = EmptyMap /\ seenUUIDs' = {}
    /\ metricsByGroup' = EmptyMap /\ allRecords' = <<>>
    /\ claudeRecords' = <<>> /\ historyUUIDs' = {}
    /\ claudeMinTime' = 0 /\ claudeMaxTime' = 0 /\ claudeTimeInitialized' = FALSE
    /\ foldKeys' = {} /\ received' = <<>>
    /\ panicked' = FALSE
    /\ UNCHANGED <<logs, lastCall, history, groupBy, faults, histAtStart>>

\* The steps of one run of main() and its goroutines.
RunNext ==
    \/ MainStart \/ MainSendFile \/ MainCloseFileChan \/ MainCloseLineChan
    \/ MainCloseCostChan \/ MainWaitAcc \/ MainSave \/ MainRender
    \/ \E i \in Readers : ReaderRecv(i) \/ ReaderSend(i) \/ ReaderReadError(i) \/ ReaderExit(i)
    \/ \E i \in Parsers : ParserRecv(i) \/ ParserSend(i) \/ ParserExit(i)
    \/ AccRecv \/ AccStartFold \/ AccFold \/ AccExit

Next == RunNext \/ NewRun

\* Several runs, one process at a time.
Spec == Init /\ [][Next]_vars

\* One run.
RunSpec == RunInit /\ [][RunNext]_vars

\* One run over a log whose records lie at the ends of days.
\* One run over one primary log: two priced lines of one day around a second
\* line that may be priced, unpriced or empty, and a truncated last line.
ScenarioInit == InitWith(ScenarioLogs, GroupBys)
ScenarioSpec == ScenarioInit /\ [][RunNext]_vars

\* One run over lines with an empty and with an absent requestId.
RequestInit == InitWith(RequestLogs, GroupBys)
RequestSpec == RequestInit /\ [][RunNext]_vars

DayInit == InitWith(DayLogs, GroupBys)
DaySpec == DayInit /\ [][RunNext]_vars

\* Repeated runs over one log of two days, in which two steps may fail.
SaveLogs == {<< <<LineU2, LineR1>> >>, << <<LineU1, LineR3>> >>}
SaveInit ==
    /\ logs \in SaveLogs
    /\ lastCall = NoCall
    /\ groupBy \in GroupBys
    /\ history = EmptyMap
    /\ histAtStart = EmptyMap
    /\ run = 1
    /\ faults = 0 - 1
    /\ StartOfRun
SaveSpec == SaveInit /\ [][Next]_vars

\* Repeated runs over one log of the days around the epoch.
EpochLogs ==
    {<< <<DayLine(a)>> >> : a \in DayTimes}
        \cup {<< <<DayLine(0 - 1), LineR1>> >>, << <<LineR1, DayLine(SecondsPerDay)>> >>}
EpochInit == InitWith(EpochLogs, GroupBys)
EpochSpec == EpochInit /\ [][Next]_vars

(***************************************************************************)
(* Direct calls of the functions of history.go.                            *)
(***************************************************************************)
runVars == <<logs, groupBy, run, faults, histAtStart, mainVars, chanVars,
             reader, parser, accVars, panicked>>

\* Times around the epoch and around the ends of its days.
NameTimes == {0 - SecondsPerDay - 1, 0 - SecondsPerDay, 0 - 1, 0, 1,
              SecondsPerDay - 1, SecondsPerDay, SecondsPerDay + 1, 2 * SecondsPerDay}

QueryTimes == {0 - SecondsPerDay, 0 - 1, 0, 1, SecondsPerDay, SecondsPerDay + 1}

\* File lists: up to two names, of the days around the epoch or names that
\* are no history file names (too few parts, a part that is no number).
FilterNames == {HistoryFilename(t) : t \in {0 - 1, 0, SecondsPerDay}}
                  \cup {<<1970, Dash, 1>>,
                        <<1970, Dash, 1, Dash, 1, Dash, Letter, Dash, SecondsPerDay>>,
                        <<1970, Dash, 1, Dash, 1, Dash, 0, Dash, Letter>>}
FilterLists == {<<>>} \cup {<<a>> : a \in FilterNames}
                  \cup {<<a, b>> : a \in FilterNames,
                                    b \in {HistoryFilename(t) : t \in {0 - 1, 0, SecondsPerDay}}}

\* ParseHistoryFilename(HistoryFilename(t))
CallHistoryFilename ==
    /\ \E t \in NameTimes :
         lastCall' = [op |-> "HistoryFilename", arg |-> [t |-> t],
                      res |-> ParseHistoryFilename(HistoryFilename(t))]
    /\ UNCHANGED <<history, runVars>>

\* start, end, err := ParseHistoryFilename(name)
CallParseHistoryFilename ==
    /\ \E name \in FilterNames :
         lastCall' = [op |-> "ParseHistoryFilename", arg |-> [name |-> name],
                      res |-> ParseHistoryFilename(name)]
    /\ UNCHANGED <<history, runVars>>

\* FilterFilesForRange(files, queryStart, queryEnd)
CallFilterFilesForRange ==
    /\ \E files \in FilterLists, qs, qe \in QueryTimes :
         lastCall' = [op |-> "FilterFilesForRange",
                      arg |-> [files |-> files, queryStart |-> qs, queryEnd |-> qe],
                      res |-> FilterFilesForRange(files, qs, qe)]
    /\ UNCHANGED <<history, runVars>>

NameInit == InitWith({<<>>}, GroupBys)
NameNext == CallHistoryFilename \/ CallParseHistoryFilename \/ CallFilterFilesForRange
NameSpec == NameInit /\ [][NameNext]_vars

\* The file the direct calls write and read, and a file that is not there.
StoreFile == HistoryFilename(0)
OtherFile == HistoryFilename(SecondsPerDay)
\* The largest number of pieces of StoreFile.
MaxFileLen == 4
StoreBatches == {<<>>, <<EmptyLine>>, <<LineU1>>, <<LineR1>>, <<OversizeLine>>,
                 <<LineU1, LineU1>>, <<LineU1, LineR1>>}

\* err := AppendRawLines(StoreFile, lines)
CallAppendRawLines ==
    /\ \E lines \in StoreBatches :
         \E fault \in {NoAppendFault} \cup AppendFaults(lines) :
            LET r == AppendRawLines(history, StoreFile, lines, fault)
            IN  /\ StoreFile \in DOMAIN r.dir => Len(r.dir[StoreFile]) <= MaxFileLen
                /\ history' = r.dir
                /\ lastCall' = [op |-> "AppendRawLines",
                                arg |-> [file |-> StoreFile, lines |-> lines,
                                         fault |-> fault],
                                res |-> [err |-> r.err, synced |-> r.synced,
                                         mkdir |-> r.mkdir]]
    /\ UNCHANGED runVars

\* ids, err := LoadUUIDs(file)
CallLoadUUIDs ==
    /\ \E file \in {StoreFile, OtherFile} :
         lastCall' = [op |-> "LoadUUIDs", arg |-> [file |-> file],
                      res |-> LoadUUIDs(history, file)]
    /\ UNCHANGED <<history, runVars>>

StoreInit == InitWith({<<>>}, GroupBys)
StoreNext == CallAppendRawLines \/ CallLoadUUIDs
StoreSpec == StoreInit /\ [][StoreNext]_vars

(***************************************************************************)
(* Direct calls of ListHistoryFiles on directories of every kind of entry. *)
(* A name is the sequence of its parts, the extensions last.               *)
(***************************************************************************)
\* strings.HasSuffix
HasSuffix(str, suffix) ==
    /\ Len(suffix) <= Len(str)
    /\ SubSeq(str, Len(str) - Len(suffix) + 1, Len(str)) = suffix

\* The entries a history directory may hold, in the order of their names:
\* files and directories, with and without the extension.
DirEntries ==
    << [name |-> <<".jsonl">>, isDir |-> FALSE],
       [name |-> <<"a", ".jsonl">>, isDir |-> FALSE],
       [name |-> <<"b", ".jsonl">>, isDir |-> TRUE],
       [name |-> <<"c", ".jsonl", ".bak">>, isDir |-> FALSE],
       [name |-> <<"d", ".txt">>, isDir |-> FALSE],
       [name |-> <<"e">>, isDir |-> TRUE],
       [name |-> <<"f", ".jsonl">>, isDir |-> FALSE] >>

\* The history directory: missing, or holding some of the entries.
DirStates ==
    {[exists |-> FALSE, holds |-> {}]}
    \cup {[exists |-> TRUE, holds |-> h] : h \in SUBSET DOMAIN DirEntries}

\* What can fail: HistoryDir finds no home directory, os.ReadDir cannot read
\* an existing directory.
ListFaults == {"none", "home", "read"}

\* os.ReadDir: the entries sorted by name; IsNotExist for a missing directory.
ReadDir(d, fault) ==
    IF ~d.exists THEN [entries |-> <<>>, err |-> "notexist"]
    ELSE IF fault = "read" THEN [entries |-> <<>>, err |-> "other"]
    ELSE LET held == SelectSeq([i \in DOMAIN DirEntries |-> i],
                               LAMBDA i : i \in d.holds)
         IN  [entries |-> [k \in DOMAIN held |-> DirEntries[held[k]]],
              err |-> "none"]

\* filepath.Join(dir, name)
JoinDir(name) == <<"history">> \o name

\* (variant: directories are listed too)
IsHistoryEntry_AnyKind(e) == HasSuffix(e.name, <<".jsonl">>)

\* !e.IsDir() && strings.HasSuffix(e.Name(), ".jsonl")
IsHistoryEntry(e) == ~e.isDir /\ HasSuffix(e.name, <<".jsonl">>)

\* ListHistoryFiles on a directory of any entries: the files and the error.
ListHistoryFilesIn(d, fault) ==
    IF fault = "home" THEN [files |-> <<>>, err |-> TRUE]
    ELSE LET rd == ReadDir(d, fault)
             kept == SelectSeq(rd.entries, IsHistoryEntry)
         IN  IF rd.err = "notexist" THEN [files |-> <<>>, err |-> FALSE]
             ELSE IF rd.err # "none" THEN [files |-> <<>>, err |-> TRUE]
             ELSE [files |-> [i \in DOMAIN kept |-> JoinDir(kept[i].name)],
                   err |-> FALSE]

CallListHistoryFiles ==
    /\ \E d \in DirStates, fault \in ListFaults :
          lastCall' = [op |-> "ListHistoryFiles",
                       arg |-> [dir |-> d, fault |-> fault],
                       res |-> ListHistoryFilesIn(d, fault)]
    /\ UNCHANGED <<history, runVars>>

ListInit == InitWith({<<>>}, GroupBys)
ListNext == CallListHistoryFiles
ListSpec == ListInit /\ [][ListNext]_vars

\* One run under a fair scheduler: a goroutine that can take a step is not
\* postponed forever.
FairLogs ==
    PairLogs \cup {<< <<a, b>>, <<c>> >> : a \in {LineR1}, b \in {LineR2, LineU1},
                                          c \in {LineR3, LineU2}}
FairRunInit == InitWith(FairLogs, GroupBys)
FairRunSpec == FairRunInit /\ [][RunNext]_vars /\ WF_vars(RunNext)

(***************************************************************************)
(* Definitions shared by the properties.                                   *)
(***************************************************************************)
\* Folding a sequence of records, one after the other, into `metrics`.
RECURSIVE FoldAll(_, _, _)
FoldAll(metrics, by, records) ==
    IF records = <<>> THEN metrics
    ELSE FoldAll(FoldRecord(metrics, by, Head(records)), by, Tail(records))

\* Positions of `records` whose record carries requestID r.
WithRequest(records, r) == {i \in DOMAIN records : records[i].RequestID = r}

\* Positions of `records` whose record has no requestID and carries uuid u.
WithUUID(records, u) ==
    {i \in DOMAIN records : records[i].RequestID = Nil /\ records[i].UUID = u}

RequestIDs == {l.requestId : l \in EventLines} \ {Nil}
UUIDs == {l.uuid : l \in EventLines} \ {""}

MaxOf(S) == CHOOSE x \in S : \A y \in S : y <= x
MinOf(S) == CHOOSE x \in S : \A y \in S : x <= y

\* The lines the current run appended to history file f.
AppendedTo(f) ==
    LET before == IF f \in DOMAIN histAtStart THEN Len(histAtStart[f]) ELSE 0
        added == SelectSeq(SubSeq(history[f], before + 1, Len(history[f])),
                           LAMBDA c : c.kind = "line")
    IN  [i \in DOMAIN added |-> added[i].line]

\* Number of lines with uuid u the current run appended to the files.
RECURSIVE AppendedCount(_, _)
AppendedCount(files, u) ==
    IF files = {} THEN 0
    ELSE LET f == CHOOSE x \in files : TRUE
         IN  Cardinality({i \in DOMAIN AppendedTo(f) : AppendedTo(f)[i].uuid = u})
             + AppendedCount(files \ {f}, u)

AppendedWithUUID(u) == AppendedCount(DOMAIN history, u)

(***************************************************************************)
(* C1.  For every requestID r carried by a received record: once the       *)
(* accumulator has finished, exactly one record with requestID r is in     *)
(* allRecords, its cost is the maximum cost of the records received with   *)
(* requestID r, and metricsByGroup is the fold of allRecords.              *)
(***************************************************************************)
C1_MaxCostPerRequest ==
    accPc = "done" =>
        /\ \A r \in RequestIDs :
             WithRequest(received, r) # {} =>
                /\ Cardinality(WithRequest(allRecords, r)) = 1
                /\ \A i \in WithRequest(allRecords, r) :
                     allRecords[i].Cost =
                        MaxOf({received[j].Cost : j \in WithRequest(received, r)})
        /\ metricsByGroup = FoldAll(EmptyMap, groupBy, allRecords)

\* Three records of one request were received, the most expensive one first.
C1_Witness ==
    /\ accPc = "done"
    /\ \E r \in RequestIDs :
         /\ Cardinality(WithRequest(received, r)) = 3
         /\ \E i, j \in WithRequest(received, r) :
              i < j /\ received[i].Cost > received[j].Cost
         /\ \E i, j \in WithRequest(received, r) :
              i < j /\ received[i].Cost < received[j].Cost

(***************************************************************************)
(* C2.  Among the received records without requestID that share a          *)
(* non-empty uuid, the first received is the only one in allRecords (and   *)
(* so in metricsByGroup, the fold of allRecords); receiving a later one    *)
(* leaves metricsByGroup, allRecords and seenUUIDs unchanged.              *)
(***************************************************************************)
C2_FirstFolded ==
    /\ \A u \in UUIDs :
         WithUUID(received, u) # {} =>
            /\ Cardinality(WithUUID(allRecords, u)) = 1
            /\ \A i \in WithUUID(allRecords, u) :
                 allRecords[i] = received[MinOf(WithUUID(received, u))]
    /\ accPc = "collect" => metricsByGroup = FoldAll(EmptyMap, groupBy, allRecords)

\* The accumulator receives a record without requestID whose uuid an
\* earlier received record without requestID carried.
C2_ReceivesDuplicate ==
    /\ accPc = "collect"
    /\ costChan # <<>>
    /\ received' = Append(received, Head(costChan))
    /\ Head(costChan).RequestID = Nil
    /\ Head(costChan).UUID # ""
    /\ WithUUID(received, Head(costChan).UUID) # {}

C2_FirstUUIDWins ==
    /\ []C2_FirstFolded
    /\ [][C2_ReceivesDuplicate => UNCHANGED <<metricsByGroup, allRecords, seenUUIDs>>]_vars

\* Two different records of one uuid were received, neither with requestID.
C2_Witness ==
    \E u \in UUIDs : \E i, j \in WithUUID(received, u) : received[i] # received[j]

(***************************************************************************)
(* C3.  When the accumulator has finished a run in which it received the   *)
(* record of one event line both from a primary log and from a history     *)
(* file, allRecords holds exactly one record of the line's requestID (if   *)
(* the line carries one) or exactly one record without requestID of the    *)
(* line's uuid (if it carries a uuid and no requestID), and metricsByGroup *)
(* is the fold of allRecords.                                              *)
(***************************************************************************)
ReadFromBoth(l) ==
    \E i, j \in DOMAIN received :
        /\ received[i].RawLine = l /\ received[i].FromHistory
        /\ received[j].RawLine = l /\ ~received[j].FromHistory

C3_NoDoubleCount ==
    accPc = "done" =>
        /\ \A l \in EventLines :
             ReadFromBoth(l) =>
                IF l.requestId # Nil
                THEN Cardinality(WithRequest(allRecords, l.requestId)) = 1
                ELSE l.uuid # "" => Cardinality(WithUUID(allRecords, l.uuid)) = 1
        /\ metricsByGroup = FoldAll(EmptyMap, groupBy, allRecords)

\* A run received a line with requestID and a line with only a uuid, each
\* from a primary log and from history.
C3_Witness ==
    /\ accPc = "done"
    /\ \E l \in EventLines : l.requestId # Nil /\ ReadFromBoth(l)
    /\ \E l \in EventLines : l.requestId = Nil /\ l.uuid # "" /\ ReadFromBoth(l)

(***************************************************************************)
(* C4.  The result of the accumulator over the records of the primary logs *)
(* taken in file order, as one reader and one parser deliver them.         *)
(***************************************************************************)
RECURSIVE Flatten(_)
Flatten(files) ==
    IF files = <<>> THEN <<>> ELSE Head(files) \o Flatten(Tail(files))

RECURSIVE ParseAll(_)
ParseAll(ls) ==
    IF ls = <<>> THEN <<>>
    ELSE (IF Head(ls).len = 0 THEN <<>>
          ELSE ParseLine([Line |-> Head(ls), FromHistory |-> FALSE]))
         \o ParseAll(Tail(ls))

FileOrderRecords == ParseAll(Flatten(logs))

\* First pass over `records`, from the accumulator state st.
RECURSIVE CollectAll(_, _)
CollectAll(st, records) ==
    IF records = <<>> THEN st
    ELSE LET record == Head(records)
             next ==
                IF record.RequestID # Nil
                THEN [st EXCEPT !.retained = RetainMax(st.retained, record)]
                ELSE IF IsSeenUUID(st.seen, record) THEN st
                ELSE [st EXCEPT
                        !.seen = IF record.UUID # "" THEN st.seen \cup {record.UUID}
                                 ELSE st.seen,
                        !.metrics = FoldRecord(st.metrics, groupBy, record)]
         IN  CollectAll(next, Tail(records))

\* Second pass over the retained records of the requestIDs in `keys`.
RECURSIVE FoldRetained(_, _, _)
FoldRetained(metrics, retained, keys) ==
    IF keys = {} THEN metrics
    ELSE LET k == CHOOSE x \in keys : TRUE
         IN  FoldRetained(FoldRecord(metrics, groupBy, retained[k]), retained, keys \ {k})

SequentialMetrics ==
    LET st == CollectAll([retained |-> EmptyMap, seen |-> {}, metrics |-> EmptyMap],
                         FileOrderRecords)
    IN  FoldRetained(st.metrics, st.retained, DOMAIN st.retained)

\* Two records add the same amounts to the same group.
SameContribution(a, b) ==
    FoldRecord(EmptyMap, groupBy, a) = FoldRecord(EmptyMap, groupBy, b)

\* The records that compete for one dedup key contribute alike: those that
\* tie for the maximum cost of a requestID, and those without requestID that
\* share a non-empty uuid.
DuplicatesAgree(records) ==
    /\ \A r \in RequestIDs :
         \A i, j \in WithRequest(records, r) :
            (/\ records[i].Cost = MaxOf({records[k].Cost : k \in WithRequest(records, r)})
             /\ records[j].Cost = records[i].Cost)
            => SameContribution(records[i], records[j])
    /\ \A u \in UUIDs :
         \A i, j \in WithUUID(records, u) : SameContribution(records[i], records[j])

C5_FoldAfterDrain ==
    accPc \in {"fold", "done"} =>
        /\ costClosed /\ costChan = <<>>
        /\ AllParsersDone /\ lineChan = <<>>
        /\ AllReadersDone /\ fileChan = <<>>
        /\ \A i \in Readers : reader[i].lines = <<>>
        /\ \A i \in Parsers : parser[i].record = <<>>
        /\ (faults = 0 /\ history = EmptyMap) =>
              \A r \in RequestIDs :
                 Cardinality(WithRequest(received, r))
                    = Cardinality(WithRequest(FileOrderRecords, r))

\* The second pass is about to fold a requestID of which it received two
\* records.
C5_Witness ==
    /\ accPc = "fold"
    /\ \E r \in foldKeys : Cardinality(WithRequest(received, r)) >= 2

(***************************************************************************)
(* C6.  The queues are closed in pipeline order, each after its producers  *)
(* returned, the save step runs after the accumulator returned, and no     *)
(* goroutine sends on a closed queue.                                      *)
(***************************************************************************)
C6_ShutdownOrder ==
    /\ lineClosed => (fileClosed /\ AllReadersDone)
    /\ costClosed => (lineClosed /\ AllParsersDone)
    /\ mainPc \in {"save", "render", "done"} => (costClosed /\ accPc = "done")
    /\ ~panicked

\* The line queue is closed while a parser still holds a record to send.
C6_Witness ==
    /\ lineClosed /\ ~costClosed
    /\ \E i \in Parsers : parser[i].pc = "send"

(***************************************************************************)
(* C7.  Under a fair scheduler every run completes: main reaches its end,  *)
(* every reader, every parser and the accumulator have returned and the    *)
(* three queues are empty.                                                 *)
(***************************************************************************)
C7_Completed ==
    /\ mainPc = "done"
    /\ AllReadersDone /\ AllParsersDone /\ accPc = "done"
    /\ fileChan = <<>> /\ lineChan = <<>> /\ costChan = <<>>

C7_RunsToCompletion == <>C7_Completed

\* A file failed and a parser waits to send on the full record queue.
C7_Witness ==
    /\ faults > 0
    /\ Len(costChan) = ChanCap /\ \E i \in Parsers : parser[i].pc = "send"

(***************************************************************************)
(* C8.  The line queue and the record queue never hold more items than     *)
(* their capacity, the file queue never more than the number of files, and *)
(* the file queue has room whenever main has a path left to send.          *)
(***************************************************************************)
C8_BoundedQueues ==
    /\ Len(lineChan) <= ChanCap
    /\ Len(costChan) <= ChanCap
    /\ Len(fileChan) <= FileChanCap
    /\ (mainPc = "dispatch" /\ sent < Len(jsonlFiles) + Len(historyFiles))
          => Len(fileChan) < FileChanCap

\* The line queue is full and every reader waits to send on it.
C8_Witness ==
    /\ Len(lineChan) = ChanCap
    /\ \A i \in Readers : reader[i].pc = "send"

(***************************************************************************)
(* C9.  In one run the save step appends at most one line of each          *)
(* non-empty uuid.                                                         *)
(***************************************************************************)
C9_AtMostOncePerRun ==
    \A u \in UUIDs : AppendedWithUUID(u) <= 1

(***************************************************************************)
(* C10.  After the save step, no line was appended whose non-empty uuid a  *)
(* history file held at the start of the run, the file's range overlapping *)
(* the time span of the run's primary records.                             *)
(***************************************************************************)
StoredInOverlappingFile(u) ==
    \E f \in DOMAIN histAtStart :
        /\ FileOverlapsRange(f, claudeMinTime, claudeMaxTime + SecondsPerDay)
        /\ u \in LoadUUIDs(histAtStart, f).ids

C10_StoredUUIDNotAppendedAgain ==
    mainPc \in {"render", "done"} =>
        \A u \in UUIDs : StoredInOverlappingFile(u) => AppendedWithUUID(u) = 0

(***************************************************************************)
(* C11.  After a save step that met no I/O failure, every record received  *)
(* from a primary log whose uuid is empty or was in no history file at the *)
(* start of the run has its raw line appended to the history file of its   *)
(* calendar day, as many times as it was received from the primary logs,   *)
(* whether or not the record was folded into the metrics.                  *)
(***************************************************************************)
StoredUUIDsAtStart ==
    UNION {LoadUUIDs(histAtStart, f).ids : f \in DOMAIN histAtStart}

\* Number of times the current run appended line l to history file f.
TimesAppended(f, l) ==
    IF f \notin DOMAIN history THEN 0
    ELSE Cardinality({j \in DOMAIN AppendedTo(f) : AppendedTo(f)[j] = l})

\* Number of records with raw line l received from the primary logs.
TimesReceived(l) ==
    Cardinality({j \in DOMAIN received :
                    ~received[j].FromHistory /\ received[j].RawLine = l})

C11_NoRecordLost ==
    (mainPc \in {"render", "done"} /\ saveFault.kind = "none") =>
        \A i \in DOMAIN received :
            (/\ ~received[i].FromHistory
             /\ received[i].UUID \notin (StoredUUIDsAtStart \ {""}))
            => TimesAppended(HistoryFilename(received[i].FullTimestamp),
                             received[i].RawLine)
                  = TimesReceived(received[i].RawLine)

\* A save step without failure appended a record that was not folded: the
\* cheaper record of a requestID, or the second record of a uuid.
C11_Witness ==
    /\ mainPc = "done" /\ saveFault.kind = "none"
    /\ \E i \in DOMAIN received :
         /\ ~received[i].FromHistory
         /\ \A j \in DOMAIN allRecords : allRecords[j].RawLine # received[i].RawLine
         /\ TimesAppended(HistoryFilename(received[i].FullTimestamp),
                          received[i].RawLine) >= 1

(***************************************************************************)
(* C12.  Every file of the history directory is named for one calendar     *)
(* day: its name spells the date of a midnight s, then s, then the next    *)
(* midnight s + 1 day; and every line the run appended to it has a         *)
(* timestamp t with s <= t < s + 1 day.                                    *)
(***************************************************************************)
\* The name that spells the day beginning at second s.
DayName(s) ==
    CivilDate(s) \o <<Dash>> \o FormatInt(s) \o <<Dash>> \o FormatInt(s + SecondsPerDay)

Midnights == {d * SecondsPerDay : d \in (0 - 2)..2}

IsPrefix(a, b) == Len(a) <= Len(b) /\ SubSeq(b, 1, Len(a)) = a

C13_AppendOnly ==
    [][\A f \in DOMAIN history :
          f \in DOMAIN history' /\ IsPrefix(history[f], history'[f])]_vars

\* A run appended to a file that an earlier run had created and filled.
C13_Witness ==
    /\ mainPc = "render" /\ run > 1
    /\ \E f \in DOMAIN histAtStart :
         /\ histAtStart[f] # <<>>
         /\ Len(history[f]) > Len(histAtStart[f])

(***************************************************************************)
(* C14.  A call of AppendRawLines with a non-empty batch that returns no   *)
(* error has added to the file every line of the batch, in order, each     *)
(* followed by one newline, and has synced the file; a call in which a     *)
(* write or the sync fails returns an error.                               *)
(***************************************************************************)
\* The bytes of a batch written in full: each line, then a newline.
RECURSIVE Terminated(_)
Terminated(lines) ==
    IF lines = <<>> THEN <<>>
    ELSE LineBytes(Head(lines)) \o <<NL>> \o Terminated(Tail(lines))

C14_SuccessAfterWritesAndSync ==
    [][(lastCall'.op = "AppendRawLines" /\ lastCall'.arg.lines # <<>>) =>
          /\ ~lastCall'.res.err =>
                /\ StoreFile \in DOMAIN history'
                /\ history'[StoreFile] = OpenedForAppend(history, StoreFile)
                                             \o Terminated(lastCall'.arg.lines)
                /\ lastCall'.res.synced
          /\ lastCall'.arg.fault.kind # "none" => lastCall'.res.err]_vars

\* A line was appended without error to a file that held a line already.
C14_Witness ==
    /\ lastCall.op = "AppendRawLines" /\ ~lastCall.res.err /\ lastCall.res.synced
    /\ lastCall.arg.lines = <<LineR1>>
    /\ StoreFile \in DOMAIN history
    /\ history[StoreFile] = Terminated(<<LineU1, LineR1>>)

(***************************************************************************)
(* C15.  For every time t, ParseHistoryFilename(HistoryFilename(t))        *)
(* returns no error and the pair (start, end) of the midnight of t's day   *)
(* and the next midnight.                                                  *)
(***************************************************************************)
\* The midnight that begins the day of t.
LocalMidnight(t) == CHOOSE s \in Midnights : s <= t /\ t < s + SecondsPerDay

C15_RoundTrip ==
    lastCall.op = "HistoryFilename" =>
        lastCall.res = [start |-> LocalMidnight(lastCall.arg.t),
                        end |-> LocalMidnight(lastCall.arg.t) + SecondsPerDay,
                        err |-> FALSE]

(***************************************************************************)
(* C16.  FilterFilesForRange(files, queryStart, queryEnd) returns a file   *)
(* of the list if and only if the day [s, s + 1 day) its name spells has   *)
(* s < queryEnd and s + 1 day > queryStart.                                *)
(***************************************************************************)
C16_FilterIffOverlap ==
    lastCall.op = "FilterFilesForRange" =>
        /\ SeqToSet(lastCall.res) \subseteq SeqToSet(lastCall.arg.files)
        /\ \A s \in Midnights :
              DayName(s) \in SeqToSet(lastCall.arg.files) =>
                 (DayName(s) \in SeqToSet(lastCall.res)
                    <=> (/\ s < lastCall.arg.queryEnd
                         /\ s + SecondsPerDay > lastCall.arg.queryStart))

(***************************************************************************)
(* C17.  AppendRawLines does not look at what the file holds: a call that  *)
(* returns no error leaves the file ending with every line of its batch,   *)
(* each followed by a newline.  LoadUUIDs of a file returns exactly the    *)
(* set of the non-empty uuids of the lines of the file that decode.        *)
(***************************************************************************)
IsSuffix(a, b) == Len(a) <= Len(b) /\ SubSeq(b, Len(b) - Len(a) + 1, Len(b)) = a

\* The non-empty uuids of the lines of a file that decode.
DecodableUUIDs(dir, file) ==
    IF file \notin DOMAIN dir THEN {}
    ELSE LET ls == ScanLines(dir[file])
         IN  {ls[i].uuid : i \in {j \in DOMAIN ls : ls[j].decodes /\ ls[j].uuid # ""}}

C17_LoadTimeDedup ==
    /\ (/\ lastCall.op = "AppendRawLines" /\ lastCall.arg.lines # <<>>
        /\ ~lastCall.res.err)
          => /\ StoreFile \in DOMAIN history
             /\ IsSuffix(Terminated(lastCall.arg.lines), history[StoreFile])
    /\ lastCall.op = "LoadUUIDs" =>
          lastCall.res.ids = DecodableUUIDs(history, lastCall.arg.file)

(***************************************************************************)
(* C18.  LoadUUIDs never fails because of a line of the file: whatever     *)
(* partial or undecodable lines an existing file holds, the call returns   *)
(* no error and the uuid of every complete decodable line of the file.     *)
(***************************************************************************)
C18_LoadSkipsBadLines ==
    (lastCall.op = "LoadUUIDs" /\ lastCall.arg.file \in DOMAIN history) =>
        /\ ~lastCall.res.err
        /\ DecodableUUIDs(history, lastCall.arg.file) \subseteq lastCall.res.ids

(***************************************************************************)
(* C19.  A file that cannot be opened or read costs the run only that      *)
(* file.  A reader returns only when the file queue is closed and empty,   *)
(* also after it logged an error; a file it opened is read from its first  *)
(* non-empty line, and a line it holds leaves it only by being sent on the *)
(* line queue or by an error logged for its file.  When the accumulator    *)
(* has finished, nobody has panicked, the record of every line of every    *)
(* primary log for which no error was logged has been received as often as *)
(* these logs hold the line, and the metrics are those of the received     *)
(* records.                                                                *)
(***************************************************************************)
\* The paths for which a reader logged an error.
LoggedErrors == UNION {reader[i].errors : i \in Readers}

\* The primary logs for which no error was logged.
ReadableLogs == {k \in DOMAIN logs : <<k>> \notin LoggedErrors}

\* Number of times the readable primary logs hold line l.
TimesReadable(l) ==
    Cardinality(UNION {{<<k, j>> : j \in {n \in DOMAIN logs[k] : logs[k][n] = l}}
                       : k \in ReadableLogs})

\* The metrics the accumulator makes of the records it received.
MetricsOfReceived ==
    LET st == CollectAll([retained |-> EmptyMap, seen |-> {}, metrics |-> EmptyMap],
                         received)
    IN  FoldRetained(st.metrics, st.retained, DOMAIN st.retained)

\* All lines of the file a reader has open.
OpenFileLines(r) ==
    IF r.fromHistory THEN ScanLines(history[r.path]) ELSE logs[r.path[1]]

\* What a step may do to reader i.
C19_ReaderStep(i) ==
    /\ reader'[i].pc = "done" => fileClosed /\ fileChan = <<>>
    /\ (reader[i].lines = <<>> /\ reader'[i].lines # <<>>) =>
          \/ reader'[i].tooLong
          \/ reader'[i].lines = SkipEmpty(OpenFileLines(reader'[i]))
    /\ (reader[i].lines # <<>> /\ reader'[i].lines # reader[i].lines) =>
          \/ reader[i].path \in reader'[i].errors
          \/ /\ Len(lineChan') = Len(lineChan) + 1
             /\ SubSeq(lineChan', 1, Len(lineChan)) = lineChan
             /\ lineChan'[Len(lineChan')].Line = Head(reader[i].lines)
             /\ reader'[i].lines = SkipEmpty(Tail(reader[i].lines))

\* The step with which the accumulator returns.
C19_AtEnd ==
    (accPc # "done" /\ accPc' = "done") =>
        /\ ~panicked'
        /\ \A l \in Lines :
              ParseLine([Line |-> l, FromHistory |-> FALSE]) # <<>> =>
                 Cardinality({j \in DOMAIN received' :
                                 ~received'[j].FromHistory /\ received'[j].RawLine = l})
                    >= TimesReadable(l)'
        /\ metricsByGroup' = MetricsOfReceived'

C19_FailedFileSkipped ==
    [][(\A i \in Readers : C19_ReaderStep(i)) /\ C19_AtEnd]_vars

\* A run ended in which one primary log failed and the record of a line of
\* another primary log is in the metrics.
C19_Witness ==
    /\ mainPc = "done" /\ ~panicked
    /\ LoggedErrors # {}
    /\ \E k \in ReadableLogs : \E n \in DOMAIN logs[k] :
          /\ TimesReceived(logs[k][n]) >= 1
          /\ metricsByGroup # EmptyMap

(***************************************************************************)
(* C20.  A line that does not decode, or that decodes without a price,     *)
(* yields no record and leaves its parser ready for the next line.  Every  *)
(* record held by a parser, on the record queue or received by the         *)
(* accumulator has a non-empty pricingKey and comes from a decodable line; *)
(* a parser that takes such a line holds no record afterwards and waits    *)
(* for the next line, a parser that takes any other line holds its record; *)
(* and a parser returns only when the line queue is closed and empty.      *)
(***************************************************************************)
\* A line the parser skips.
IsBadLine(l) == ~l.decodes \/ CalculateCost(l).PricingKey = ""

\* The records between the parsers and the accumulator.
RecordsInFlight ==
    SeqToSet(costChan) \cup SeqToSet(received)
        \cup UNION {SeqToSet(parser[i].record) : i \in Parsers}

\* What a step may do to parser i.
C20_ParserStep(i) ==
    /\ parser'[i].pc = "done" => lineClosed /\ lineChan = <<>>
    /\ (parser[i].pc = "recv" /\ parser'[i] # parser[i] /\ parser'[i].pc # "done") =>
          /\ lineChan # <<>> /\ lineChan' = Tail(lineChan)
          /\ IF IsBadLine(Head(lineChan).Line)
             THEN parser'[i].pc = "recv" /\ parser'[i].record = <<>>
             ELSE /\ parser'[i].pc = "send" /\ Len(parser'[i].record) = 1
                  /\ parser'[i].record[1].RawLine = Head(lineChan).Line

C20_BadLineSkipped ==
    [][/\ \A r \in RecordsInFlight' : r.PricingKey # "" /\ ~IsBadLine(r.RawLine)
       /\ \A i \in Parsers : C20_ParserStep(i)]_vars

\* A parser that skipped a line holds the record of a later line.
C20_Witness ==
    \E i \in Parsers :
        /\ parser[i].skipped /\ parser[i].pc = "send"
        /\ parser[i].record[1].PricingKey # ""

(***************************************************************************)
(* C21.  A run finds no history file, no file operation fails, and the     *)
(* primary logs hold at least one priced line, all priced lines being of   *)
(* one calendar day.  After the save step the history directory holds      *)
(* exactly one file, named for that day; the file is the raw lines of the  *)
(* records the accumulator received, in that order, each followed by a     *)
(* newline; these are the priced lines of the logs, each as often as the   *)
(* logs hold it, so no line without record is in the file.                 *)
(***************************************************************************)
\* Number of records of `records` with raw line l.
TimesIn(records, l) == Cardinality({j \in DOMAIN records : records[j].RawLine = l})

\* The priced lines of the primary logs are of one day, and there is one.
OneDayLogs ==
    /\ FileOrderRecords # <<>>
    /\ \A i \in DOMAIN FileOrderRecords :
          FileOrderRecords[i].Timestamp = FileOrderRecords[1].Timestamp

C21_OneFileOfPricedLines ==
    (/\ mainPc \in {"render", "done"}
     /\ histAtStart = EmptyMap /\ faults = 0
     /\ OneDayLogs) =>
        /\ DOMAIN history = {HistoryFilename(FileOrderRecords[1].FullTimestamp)}
        /\ \A f \in DOMAIN history : history[f] = Terminated(RawLines(received))
        /\ \A l \in Lines : TimesIn(received, l) = TimesIn(FileOrderRecords, l)
        /\ \A f \in DOMAIN history : \A n \in DOMAIN history[f] :
              history[f][n].kind = "line" => ~IsBadLine(history[f][n].line)

\* The run of the example is over: three priced lines are in the one history
\* file, the truncated line of the log is not.
C21_Witness ==
    /\ mainPc = "done" /\ histAtStart = EmptyMap /\ faults = 0 /\ OneDayLogs
    /\ Len(FileOrderRecords) = 3
    /\ \E k \in DOMAIN logs : \E n \in DOMAIN logs[k] : logs[k][n] = TruncatedLine
    /\ \A f \in DOMAIN history :
          /\ Len(history[f]) = 6
          /\ \A n \in DOMAIN history[f] : history[f][n].line # TruncatedLine

(***************************************************************************)
(* C22.  The save step does not touch the result of the run.  Whatever     *)
(* failure it meets (the listing, the load of a file, an append), the step *)
(* leaves metricsByGroup and allRecords as the accumulator left them and   *)
(* main goes on to render; rendering is handed the metrics the accumulator *)
(* made of the records it received, which do not depend on the failure.    *)
(***************************************************************************)
C22_SaveStep ==
    mainPc = "save" =>
        /\ mainPc' = "render"
        /\ metricsByGroup' = metricsByGroup /\ allRecords' = allRecords
        /\ ~panicked'

C22_SaveFailureKeepsResult ==
    [][/\ C22_SaveStep
       /\ mainPc' \in {"render", "done"} => metricsByGroup' = MetricsOfReceived'
       /\ mainPc = "render" =>
             /\ mainPc' = "done"
             /\ metricsByGroup' = metricsByGroup /\ allRecords' = allRecords]_vars

\* A run has rendered its metrics after an append of its save step failed.
C22_Witness ==
    /\ mainPc = "done" /\ saveFault.kind = "append"
    /\ metricsByGroup # EmptyMap /\ allRecords # <<>>

(***************************************************************************)
(* C23.  The data of the accumulator is touched by one task at a time.     *)
(* Until the accumulator has returned, only a step of the accumulator      *)
(* changes it, and main is not yet at the save step; once main is at the   *)
(* save step or beyond, the accumulator has returned, and the data changes *)
(* only by the save step of main.                                          *)
(***************************************************************************)
\* The variables the accumulator goroutine shares with main or keeps itself.
AccumulatorData ==
    <<maxCostByRequestID, seenUUIDs, metricsByGroup, allRecords, claudeRecords,
      historyUUIDs, claudeMinTime, claudeMaxTime, claudeTimeInitialized>>

\* main is at a statement after accWg.Wait().
MainUsesData == mainPc \in {"save", "render", "done"}

\* The step is one of the accumulator goroutine and of nobody else.
AccumulatorStep ==
    /\ accPc # "done"
    /\ \/ costChan # <<>> /\ costChan' = Tail(costChan)
       \/ accPc' # accPc
       \/ accPc = "fold" /\ foldKeys' # foldKeys
    /\ UNCHANGED <<mainPc, reader, parser, history>>

C23_SingleTaskAccess ==
    [][/\ MainUsesData' => accPc' = "done"
       /\ AccumulatorData' # AccumulatorData =>
             \/ AccumulatorStep /\ ~MainUsesData
             \/ mainPc = "save" /\ accPc = "done" /\ accPc' = "done"
             \/ mainPc = "done" /\ mainPc' = "start"]_vars

\* main is about to hand to saveToHistory the records the accumulator
\* collected, after the accumulator folded its retained records and returned.
C23_Witness ==
    /\ mainPc = "save" /\ accPc = "done"
    /\ claudeRecords # <<>> /\ maxCostByRequestID # EmptyMap
    /\ metricsByGroup # EmptyMap

(***************************************************************************)
(* C24.  ListHistoryFiles of a missing history directory returns no file   *)
(* and no error.  Of a directory that exists and can be read it returns,   *)
(* without error and each once, the paths of exactly those entries that    *)
(* are not directories and whose name ends in .jsonl.                      *)
(***************************************************************************)
\* The entries of directory d that are files with a name ending in .jsonl.
JsonlFilesOf(d) ==
    {DirEntries[i].name : i \in {j \in d.holds :
        /\ ~DirEntries[j].isDir
        /\ DirEntries[j].name[Len(DirEntries[j].name)] = ".jsonl"}}

C24_ListsJsonlFiles ==
    (lastCall.op = "ListHistoryFiles" /\ lastCall.arg.fault = "none") =>
        LET d == lastCall.arg.dir
            r == lastCall.res
        IN  /\ ~r.err
            /\ ~d.exists => r.files = <<>>
            /\ d.exists =>
                  /\ SeqToSet(r.files) = {JoinDir(n) : n \in JsonlFilesOf(d)}
                  /\ Len(r.files) = Cardinality(JsonlFilesOf(d))

\* The directory held files and directories with and without the extension,
\* and the call returned the three files whose name ends in .jsonl.
C24_Witness ==
    /\ lastCall.op = "ListHistoryFiles" /\ lastCall.arg.fault = "none"
    /\ lastCall.arg.dir.holds = DOMAIN DirEntries
    /\ Len(lastCall.res.files) = 3 /\ ~lastCall.res.err

\* The call on a missing directory returned nothing and no error.
C24_WitnessMissing ==
    /\ lastCall.op = "ListHistoryFiles" /\ lastCall.arg.fault = "none"
    /\ ~lastCall.arg.dir.exists
    /\ lastCall.res = [files |-> <<>>, err |-> FALSE]

(***************************************************************************)
(* C25.  Records are collapsed by requestID only when the requestID is not *)
(* empty.  No record is retained under the empty requestID, and when the   *)
(* accumulator has finished, every received record whose requestID is      *)
(* absent or empty and whose uuid is not empty has a record of its uuid    *)
(* among the folded records: two such records of different uuids are both  *)
(* in the metrics.                                                         *)
(***************************************************************************)
NoRequestID(record) == record.RequestID = Nil \/ record.RequestID = ""

C25_EmptyRequestIDNotCollapsed ==
    /\ "" \notin DOMAIN maxCostByRequestID
    /\ accPc = "done" =>
          \A i \in DOMAIN received :
             (NoRequestID(received[i]) /\ received[i].UUID # "") =>
                \E k \in DOMAIN allRecords :
                   /\ NoRequestID(allRecords[k])
                   /\ allRecords[k].UUID = received[i].UUID

(***************************************************************************)
(* C26.  Among the records received with one requestID, the record         *)
(* retained in maxCostByRequestID is at every moment the first received of *)
(* those with the highest cost; when the accumulator has finished, that    *)
(* record is the one record of the requestID among the folded records.     *)
(***************************************************************************)
\* The first received of the records of requestID r with the highest cost.
FirstOfMaxCost(r) ==
    LET idx == WithRequest(received, r)
        top == MaxOf({received[i].Cost : i \in idx})
    IN  received[MinOf({i \in idx : received[i].Cost = top})]

C26_TiesKeepFirst ==
    \A r \in DOMAIN maxCostByRequestID :
        /\ WithRequest(received, r) # {}
        /\ maxCostByRequestID[r] = FirstOfMaxCost(r)
        /\ accPc = "done" =>
              /\ \E k \in DOMAIN allRecords : allRecords[k] = FirstOfMaxCost(r)
              /\ \A k \in DOMAIN allRecords :
                    allRecords[k].RequestID = r => allRecords[k] = FirstOfMaxCost(r)

\* Two different records of one requestID tied for the highest cost, and the
\* one received first was folded.
C26_Witness ==
    /\ accPc = "done"
    /\ \E r \in DOMAIN maxCostByRequestID : \E i, j \in WithRequest(received, r) :
          /\ i < j /\ received[i] # received[j]
          /\ received[i].Cost = received[j].Cost
          /\ received[i] = FirstOfMaxCost(r)
          /\ \E k \in DOMAIN allRecords : allRecords[k] = received[i]

(***************************************************************************)
(* C27.  In the first pass, the step that receives a record with a         *)
(* requestID changes neither metricsByGroup nor allRecords nor seenUUIDs.  *)
(* The step that receives a record without requestID whose uuid is empty   *)
(* or new appends the record to allRecords and adds its amounts to the     *)
(* entry of its group key, which is created when missing; every other      *)
(* entry of metricsByGroup stays as it was.                                *)
(***************************************************************************)
\* The entry of group key k, zero when the group has none.
MetricsAt(metrics, k) == IF k \in DOMAIN metrics THEN metrics[k] ELSE ZeroMetrics

C27_ReceiveStep ==
    LET record == Head(costChan)
        k == BuildGroupKey(groupBy, record)
    IN  IF record.RequestID # Nil
        THEN /\ metricsByGroup' = metricsByGroup /\ allRecords' = allRecords
             /\ seenUUIDs' = seenUUIDs
        ELSE IF record.UUID # "" /\ record.UUID \in seenUUIDs
        THEN TRUE
        ELSE /\ allRecords' = Append(allRecords, record)
             /\ maxCostByRequestID' = maxCostByRequestID
             /\ DOMAIN metricsByGroup' = DOMAIN metricsByGroup \cup {k}
             /\ \A x \in DOMAIN metricsByGroup :
                   x # k => metricsByGroup'[x] = metricsByGroup[x]
             /\ metricsByGroup'[k].Cost = MetricsAt(metricsByGroup, k).Cost + record.Cost
             /\ metricsByGroup'[k].InputTokens =
                   MetricsAt(metricsByGroup, k).InputTokens + record.InputTokens
             /\ metricsByGroup'[k].OutputTokens =
                   MetricsAt(metricsByGroup, k).OutputTokens + record.OutputTokens

C27_FirstPassFrame ==
    [][(accPc = "collect" /\ costChan # <<>> /\ received' # received)
          => C27_ReceiveStep]_vars

\* The first pass has retained a record with a requestID, which is not in
\* the metrics, and has then folded a record without requestID at once.
C27_Witness ==
    /\ accPc = "collect" /\ ~costClosed
    /\ maxCostByRequestID # EmptyMap
    /\ Len(received) >= 2 /\ Len(allRecords) = 1
    /\ received[Len(received)].RequestID = Nil
    /\ allRecords[1] = received[Len(received)]
    /\ DOMAIN metricsByGroup = {BuildGroupKey(groupBy, allRecords[1])}

(***************************************************************************)
(* C28.  claudeRecords is at every moment the sequence of the records      *)
(* received from the primary logs, so no record read from a history file   *)
(* is in it, and the lines a run appends to the history files are raw      *)
(* lines of these records.  When the accumulator has finished and          *)
(* claudeRecords is not empty, claudeMinTime is the smallest and            *)
(* claudeMaxTime the largest full timestamp of its records.                *)
(***************************************************************************)
FromPrimary(record) == ~record.FromHistory

C28_ClaudeRecords ==
    /\ claudeRecords = SelectSeq(received, FromPrimary)
    /\ mainPc \in {"render", "done"} =>
          \A f \in DOMAIN history : \A n \in DOMAIN AppendedTo(f) :
             \E j \in DOMAIN claudeRecords : claudeRecords[j].RawLine = AppendedTo(f)[n]
    /\ (accPc = "done" /\ claudeRecords # <<>>) =>
          LET times == {claudeRecords[j].FullTimestamp : j \in DOMAIN claudeRecords}
          IN  /\ claudeTimeInitialized
              /\ claudeMinTime = MinOf(times)
              /\ claudeMaxTime = MaxOf(times)

\* A rerun has received records from a history file and from the primary
\* log; the two records of the log have different timestamps, the later one
\* received first.
C28_Witness ==
    /\ accPc = "done" /\ run = 2
    /\ \E i \in DOMAIN received : received[i].FromHistory
    /\ Len(claudeRecords) = 2
    /\ claudeRecords[1].FullTimestamp > claudeRecords[2].FullTimestamp
    /\ claudeMinTime = claudeRecords[2].FullTimestamp
    /\ claudeMaxTime = claudeRecords[1].FullTimestamp

(***************************************************************************)
(* C29.  Between the files and the parsers no line is lost, duplicated or  *)
(* mislabelled.  A reader that opens a file holds its non-empty lines in   *)
(* file order under the flag of the file; the line queue never holds an    *)
(* empty line and changes only when one reader appends the first line it   *)
(* holds, with its flag, and drops it, or when one parser takes the head   *)
(* and parses it, nobody else moving.  When the accumulator has finished   *)
(* and no file failed, it has received the record of every priced line     *)
(* once per occurrence in the files sent to the readers, under the flag of *)
(* the file.                                                               *)
(***************************************************************************)
\* Number of times the file of the k-th FileWork holds line l.
TimesInFile(k, l) ==
    LET work == FileWorkAt(k)
        ls == IF work.FromHistory THEN ScanLines(histAtStart[work.Path])
              ELSE logs[work.Path[1]]
    IN  Cardinality({n \in DOMAIN ls : ls[n] = l})

\* Number of times the files sent with flag `fromHistory` hold line l.
RECURSIVE TimesSent(_, _, _)
TimesSent(k, l, fromHistory) ==
    IF k = 0 THEN 0
    ELSE (IF FileWorkAt(k).FromHistory = fromHistory THEN TimesInFile(k, l) ELSE 0)
         + TimesSent(k - 1, l, fromHistory)

C29_ReaderAppends(i) ==
    /\ reader[i].lines # <<>>
    /\ Len(lineChan') = Len(lineChan) + 1
    /\ SubSeq(lineChan', 1, Len(lineChan)) = lineChan
    /\ lineChan'[Len(lineChan')].Line = Head(reader[i].lines)
    /\ lineChan'[Len(lineChan')].FromHistory = reader[i].fromHistory
    /\ reader'[i].lines = SkipEmpty(Tail(reader[i].lines))
    /\ \A j \in Readers \ {i} : reader'[j] = reader[j]
    /\ parser' = parser

C29_ParserTakes(i) ==
    /\ lineChan # <<>> /\ lineChan' = Tail(lineChan)
    /\ parser[i].pc = "recv"
    /\ parser'[i].record = ParseLine(Head(lineChan))
    /\ \A j \in Parsers \ {i} : parser'[j] = parser[j]
    /\ reader' = reader

C29_Opens(i) ==
    (reader[i].path = <<>> /\ reader'[i].path # <<>>) =>
        /\ fileChan # <<>>
        /\ reader'[i].path = Head(fileChan).Path
        /\ reader'[i].fromHistory = Head(fileChan).FromHistory
        /\ reader'[i].tooLong \/ reader'[i].lines =
              SkipEmpty(IF Head(fileChan).FromHistory
                        THEN ScanLines(history[Head(fileChan).Path])
                        ELSE logs[Head(fileChan).Path[1]])

C29_AtEnd ==
    (accPc # "done" /\ accPc' = "done" /\ LoggedErrors' = {} /\ faults' = 0) =>
        \A l \in Lines : \A h \in BOOLEAN :
            ParseLine([Line |-> l, FromHistory |-> h]) # <<>> =>
               Cardinality({j \in DOMAIN received' :
                               /\ received'[j].FromHistory = h
                               /\ received'[j].RawLine = l})
                  = TimesSent(sent, l, h)'

C29_ExactlyOnce ==
    [][/\ \A n \in DOMAIN lineChan' : lineChan'[n].Line.len > 0
       /\ lineChan' # lineChan =>
             \/ \E i \in Readers : C29_ReaderAppends(i)
             \/ \E i \in Parsers : C29_ParserTakes(i)
       /\ \A i \in Readers : C29_Opens(i)
       /\ C29_AtEnd]_vars

\* A rerun has received, each once, the record of the line of the primary
\* log and the record of the same line read from the history file.
C29_Witness ==
    /\ accPc = "done" /\ run = 2 /\ LoggedErrors = {} /\ faults = 0
    /\ Len(received) = 2
    /\ received[1].RawLine = received[2].RawLine
    /\ received[1].FromHistory # received[2].FromHistory

(***************************************************************************)
(* C30.  A line keeps its bytes from the moment it is enqueued.  The bytes *)
(* read through the entries of the line queue do not change while the      *)
(* entries wait, whatever the readers scan meanwhile; a parser parses the  *)
(* bytes that were enqueued; every record held by a parser, on the record  *)
(* queue or received is the record of its own rawLine; and the received    *)
(* records and claudeRecords are only extended during a run.               *)
(***************************************************************************)
\* The bytes read through the entries of the line queue.
QueueBytes(ch, readers) == [n \in DOMAIN ch |-> BytesOf(ch[n], readers)]

C30_ParserReads(i) ==
    (parser[i].pc = "recv" /\ parser'[i].pc = "send") =>
        /\ lineChan # <<>>
        /\ parser'[i].record =
              ParseLine([Line |-> lineChan[1].Line,
                         FromHistory |-> lineChan[1].FromHistory])

C30_LinesImmutable ==
    [][/\ LET before == QueueBytes(lineChan, reader)
              after == QueueBytes(lineChan', reader')
          IN  \/ IsPrefix(before, after)
              \/ before # <<>> /\ after = Tail(before)
       /\ \A i \in Parsers : C30_ParserReads(i)
       /\ \A r \in RecordsInFlight' :
             r = NewCostRecord([Line |-> r.RawLine, FromHistory |-> r.FromHistory])
       /\ mainPc' # "start" =>
             /\ IsPrefix(received, received')
             /\ IsPrefix(claudeRecords, claudeRecords')]_vars

\* The scanner of a reader is at the second line of its file, in the buffer
\* that held the first line, while the first line waits in the line queue.
C30_Witness ==
    \E i \in Readers :
        /\ reader[i].pc = "send" /\ ~reader[i].fromHistory
        /\ lineChan # <<>>
        /\ lineChan[1].Line # Head(reader[i].lines)
        /\ logs[reader[i].path[1]] = <<lineChan[1].Line, Head(reader[i].lines)>>

(***************************************************************************)
(* C31.  After the save step, every history file begins with what it held  *)
(* when the run started, and the lines the run added to it follow in the   *)
(* order in which the accumulator received their records: they are the raw *)
(* lines of the records of claudeRecords that belong to the day of the     *)
(* file and whose uuid is empty or not in historyUUIDs, in the order of     *)
(* claudeRecords.  A save step that failed has added a prefix of them.     *)
(***************************************************************************)
\* The raw lines the save step has to append to file f, in arrival order.
LinesToAppend(f) ==
    LET kept == SelectSeq(claudeRecords,
                          LAMBDA r : /\ HistoryFilename(r.FullTimestamp) = f
                                     /\ ~(r.UUID # "" /\ r.UUID \in historyUUIDs))
    IN  [i \in 1..Len(kept) |-> kept[i].RawLine]

C31_ArrivalOrder ==
    mainPc \in {"render", "done"} =>
        /\ \A f \in DOMAIN histAtStart :
              f \in DOMAIN history /\ IsPrefix(histAtStart[f], history[f])
        /\ \A f \in DOMAIN history :
              /\ IsPrefix(AppendedTo(f), LinesToAppend(f))
              /\ \A n \in DOMAIN AppendedTo(f) :
                    \E k \in DOMAIN logs : \E j \in DOMAIN logs[k] :
                        AppendedTo(f)[n] = logs[k][j]
              /\ saveFault.kind \in {"none", "load"} => AppendedTo(f) = LinesToAppend(f)

\* A run has added to a file that held lines two different lines, which the
\* accumulator had received in the order opposite to that of the log.
C31_Witness ==
    /\ mainPc = "done" /\ saveFault.kind = "none"
    /\ \E f \in DOMAIN histAtStart :
          /\ histAtStart[f] # <<>>
          /\ Len(AppendedTo(f)) = 2
          /\ AppendedTo(f)[1] # AppendedTo(f)[2]
          /\ AppendedTo(f) = <<logs[1][2], logs[1][1]>>

(***************************************************************************)
(* C32.  Only records of primary logs carry the raw bytes of their line:   *)
(* every record the accumulator has received or holds that was built from  *)
(* a history line (FromHistory) has an empty RawLine.                      *)
(***************************************************************************)
C32_HistoryRecordsCarryNoLine ==
    /\ \A n \in DOMAIN received :
          received[n].FromHistory => received[n].RawLine.len = 0
    /\ \A n \in DOMAIN allRecords :
          allRecords[n].FromHistory => allRecords[n].RawLine.len = 0

(***************************************************************************)
(* C33.  A run over unchanged primary logs that starts from the history    *)
(* left by the run before it, no step of either run having failed, reports *)
(* the metricsByGroup the run before reported (the sequential fold of the  *)
(* logs) and leaves every history file as it found it, whatever the uuids  *)
(* and requestIDs of the records.                                          *)
(***************************************************************************)
C33_RerunIsIdempotent ==
    (run > 1 /\ faults = 0 /\ mainPc = "done") =>
        /\ history = histAtStart
        /\ metricsByGroup = SequentialMetrics

(***************************************************************************)
(* C34.  When the save step has listed the history directory and loaded    *)
(* the files it had to load without failure, the historyUUIDs it filters   *)
(* the records with contains the uuid of every decodable line of every     *)
(* history file that existed at save time and whose range overlaps         *)
(* [claudeMinTime, claudeMaxTime + 24h).                                   *)
(***************************************************************************)
C34_OverlappingFilesKnown ==
    (/\ mainPc \in {"render", "done"}
     /\ Len(claudeRecords) > 0
     /\ saveFault.kind \in {"none", "append"}) =>
        \A f \in DOMAIN histAtStart :
            FileOverlapsRange(f, claudeMinTime, claudeMaxTime + SecondsPerDay) =>
                DecodableUUIDs(histAtStart, f) \subseteq historyUUIDs

(***************************************************************************)
(* C35.  When the save step starts, every existing history file that is    *)
(* the file of the calendar day of a record of claudeRecords is among the  *)
(* files FilterFilesForRange returns for the interval                      *)
(* [claudeMinTime, claudeMaxTime + 24h).                                   *)
(***************************************************************************)
C35_DayFilesInQuery ==
    mainPc = "save" =>
        \A n \in DOMAIN claudeRecords :
            LET f == DayName(LocalMidnight(claudeRecords[n].FullTimestamp))
            IN  f \in DOMAIN history =>
                   f \in SeqToSet(FilterFilesForRange(ListHistoryFiles(history),
                                                      claudeMinTime,
                                                      claudeMaxTime + SecondsPerDay))

(***************************************************************************)
(* C36.  When the accumulator has finished, allRecords holds exactly one   *)
(* record for every requestID received (the retained one), exactly one     *)
(* record for every non-empty uuid received without requestID, every       *)
(* record received with neither, and nothing else; and the sum of the cost *)
(* and of each token count over allRecords equals the sum of the same      *)
(* field over the groups of metricsByGroup.                                *)
(***************************************************************************)
TotalFields == {"Cost", "InputTokens", "OutputTokens", "CacheReadTokens",
                "CacheWriteTokens"}

RECURSIVE SumOfRecords(_, _)
SumOfRecords(records, field) ==
    IF records = <<>> THEN 0
    ELSE Head(records)[field] + SumOfRecords(Tail(records), field)

RECURSIVE SumOfGroups(_, _, _)
SumOfGroups(metrics, keys, field) ==
    IF keys = {} THEN 0
    ELSE LET k == CHOOSE x \in keys : TRUE
         IN  metrics[k][field] + SumOfGroups(metrics, keys \ {k}, field)

\* Positions of `records` whose record has neither requestID nor uuid.
Anonymous(records) ==
    {i \in DOMAIN records : records[i].RequestID = Nil /\ records[i].UUID = ""}

C37_RetainedStep ==
    /\ \A r \in DOMAIN maxCostByRequestID' :
          /\ \E i \in WithRequest(received', r) : received'[i] = maxCostByRequestID'[r]
          /\ \A i \in WithRequest(received', r) :
                received'[i].Cost <= maxCostByRequestID'[r].Cost
    /\ \A r \in DOMAIN maxCostByRequestID :
          /\ r \in DOMAIN maxCostByRequestID'
          /\ maxCostByRequestID[r].Cost <= maxCostByRequestID'[r].Cost
    /\ \A i \in DOMAIN received' :
          received'[i].RequestID # Nil =>
             received'[i].RequestID \in DOMAIN maxCostByRequestID'

C37_RetainedCostNeverDecreases == [][C37_RetainedStep]_vars

\* The accumulator received three records of a requestID, the dearest
\* between two cheaper ones, and retains the dearest.
C37_Witness ==
    \E r \in DOMAIN maxCostByRequestID :
        /\ Cardinality(WithRequest(received, r)) = 3
        /\ \E i, j, k \in WithRequest(received, r) :
              /\ i < j /\ j < k
              /\ received[i].Cost < received[j].Cost
              /\ received[k].Cost < received[j].Cost
              /\ maxCostByRequestID[r] = received[j]

(***************************************************************************)
(* C38.  A failure on one item of the save step does not stop the others.  *)
(* When LoadUUIDs failed for one history file, the uuids of every other    *)
(* overlapping file that was not streamed are in historyUUIDs and the      *)
(* appends are made; when AppendRawLines failed for the file of one day,   *)
(* the file of every other day received all its lines; in both cases       *)
(* saveToHistory returns no error.                                         *)
(***************************************************************************)
\* The history files of the days of the records of claudeRecords.
DayFiles == {HistoryFilename(claudeRecords[n].FullTimestamp) : n \in DOMAIN claudeRecords}

\* File f received every line the save step had for it.
FullyAppended(f) ==
    IF f \in DOMAIN history THEN AppendedTo(f) = LinesToAppend(f)
    ELSE LinesToAppend(f) = <<>>

C38_FailuresAreLocal ==
    (mainPc \in {"render", "done"} /\ Len(claudeRecords) > 0) =>
        /\ saveFault.kind = "load" =>
              /\ \A g \in DOMAIN histAtStart :
                    (/\ g # saveFault.file
                     /\ g \notin loadedHistoryFiles
                     /\ FileOverlapsRange(g, claudeMinTime, claudeMaxTime + SecondsPerDay)
                     /\ ~LoadUUIDs(histAtStart, g).err)
                        => LoadUUIDs(histAtStart, g).ids \subseteq historyUUIDs
              /\ \A f \in DayFiles : FullyAppended(f)
              /\ ~SaveError(claudeRecords, saveFault)
        /\ saveFault.kind = "append" =>
              /\ \A f \in DayFiles \ {saveFault.file} : FullyAppended(f)
              /\ ~SaveError(claudeRecords, saveFault)

\* LoadUUIDs failed for one of two overlapping files that were not streamed;
\* the uuid of the other file was loaded and its record not appended again.
C38_Witness ==
    /\ mainPc = "done" /\ saveFault.kind = "load"
    /\ saveFault.file \in DOMAIN histAtStart \ loadedHistoryFiles
    /\ LoadUUIDs(histAtStart, saveFault.file).ids # {}
    /\ \E g \in DOMAIN histAtStart \ loadedHistoryFiles :
          /\ g # saveFault.file
          /\ LoadUUIDs(histAtStart, g).ids # {}
          /\ LoadUUIDs(histAtStart, g).ids \subseteq historyUUIDs
          /\ AppendedTo(g) = <<>>
    /\ AppendedTo(saveFault.file) # <<>>

\* AppendRawLines failed for the file of one day and the file of the other
\* day received its line.
C38_WitnessAppend ==
    /\ mainPc = "done" /\ saveFault.kind = "append"
    /\ saveFault.file \in DayFiles
    /\ \E f \in DayFiles \ {saveFault.file} :
          f \in DOMAIN history /\ Len(AppendedTo(f)) = 1

(***************************************************************************)
(* C39.  AppendRawLines with an empty batch returns success without        *)
(* creating the parent directory or the file and without changing any      *)
(* file; and a run whose primary records all have their line stored in the *)
(* history file of their day when the run starts leaves every history file *)
(* as it was and creates none.                                             *)
(***************************************************************************)
\* The line of the record is a complete line of the file of its day.
StoredAtStart(record) ==
    LET f == HistoryFilename(record.FullTimestamp)
    IN  /\ f \in DOMAIN histAtStart
        /\ \E j \in DOMAIN ScanLines(histAtStart[f]) :
               ScanLines(histAtStart[f])[j] = record.RawLine

C39_StoredRecordsLeaveHistory ==
    (/\ mainPc \in {"render", "done"}
     /\ \A n \in DOMAIN claudeRecords : StoredAtStart(claudeRecords[n]))
        => history = histAtStart

\* The call with an empty batch, taken alone.
C39_EmptyBatchIsNoOp ==
    [][(lastCall'.op = "AppendRawLines" /\ lastCall'.arg.lines = <<>>) =>
          /\ history' = history
          /\ lastCall'.res = [err |-> FALSE, synced |-> FALSE, mkdir |-> FALSE]]_vars

(***************************************************************************)
(* C40.  ParseHistoryFilename returns an error for every name that has     *)
(* fewer than five parts between its "-" characters or whose fourth or     *)
(* fifth part is not a decimal integer, and FilterFilesForRange returns no *)
(* such name, whatever the query interval; the names it returns are names  *)
(* of its list.                                                            *)
(***************************************************************************)
\* The positions of "-" in a name, and the k-th of them.
DashesOf(name) == {i \in DOMAIN name : name[i] = Dash}
DashAt(name, k) ==
    CHOOSE i \in DashesOf(name) :
        Cardinality({j \in DashesOf(name) : j <= i}) = k

\* The name has five parts or more, and its fourth and fifth parts are one
\* number each.
IsParsableName(name) ==
    /\ Cardinality(DashesOf(name)) >= 4
    /\ LET third == DashAt(name, 3)
           fourth == DashAt(name, 4)
           after == IF Cardinality(DashesOf(name)) >= 5 THEN DashAt(name, 5)
                    ELSE Len(name) + 1
       IN  /\ fourth = third + 2 /\ name[third + 1] >= 0
           /\ after = fourth + 2 /\ name[fourth + 1] >= 0

C40_UnparsableNamesFiltered ==
    /\ lastCall.op = "ParseHistoryFilename" =>
          (~IsParsableName(lastCall.arg.name) => lastCall.res.err)
    /\ lastCall.op = "FilterFilesForRange" =>
          \A i \in DOMAIN lastCall.res :
              /\ IsParsableName(lastCall.res[i])
              /\ lastCall.res[i] \in SeqToSet(lastCall.arg.files)

\* A query interval around the epoch, a list of a name whose fourth part is
\* no number and the name of the first day: only the latter is returned.
C40_Witness ==
    /\ lastCall.op = "FilterFilesForRange"
    /\ lastCall.arg.queryStart < 0 /\ lastCall.arg.queryEnd > 0
    /\ Len(lastCall.arg.files) = 2
    /\ ~IsParsableName(lastCall.arg.files[1])
    /\ Cardinality(DashesOf(lastCall.arg.files[1])) = 4
    /\ lastCall.res = <<HistoryFilename(0)>>

====
